---- MODULE Spec2Model ----
(***************************************************************************)
(* Receipt/invoice digitisation pipeline.                                  *)
(*                                                                         *)
(*   Spec      the Processing Controller, EnterpriseOCRService             *)
(*             .processDocument (src/src/lib/export.ts): initialisation,   *)
(*             file validation, the retry loop, the per-attempt timeout    *)
(*             race and the recognition tasks it starts on the engine.     *)
(*   SpecGrid  the Recognition Attempt Orchestrator, EnterpriseOCREngine   *)
(*             .performMultiEngineOCR (src/unnamed/part_000): the          *)
(*             variant x configuration grid, cell by cell.                 *)
(*                                                                         *)
(* Amounts are in cents.  The data-quality score of the controller is a    *)
(* pair <<2*score, maxScore>>, so that its half-point confidence bonus and  *)
(* the final division stay exact.                                          *)
(***************************************************************************)
EXTENDS Integers, Sequences, FiniteSets, TLC

\* ------------------------------------------------------------------ bounds
\* Largest maxRetries option a caller passes.
MaxRetriesBound == 2
\* processDocument calls made on the service in one behaviour.
MaxCalls == 2
\* Most image variants handed to performMultiEngineOCR.
NumVariants == 2
\* Longest generated amount string handed to parseAmount.
MaxAmountLen == 4
\* Most lines of a raw text handed to the parser.
MaxTextLines == 2
\* Largest attempt number for which the backoff delay is computed.
MaxBackoffAttempt == 6
\* Concurrent callers of one EnterpriseOCREngine.
NumCallers == 3
\* Documents handed to one OptimizedOCRService.
MaxDocuments == 3

\* --------------------------------------------------------- program constants
MaxFileSize == 52428800
MinTextLength == 10
SubstantialTextLength == 50
LongTextLength == 100
MinQualityLast == 30
MinQualityRetry == 60
BackoffBaseMs == 1000
BackoffCapMs == 5000
\* fuzzyMatchThreshold 0.7, in tenths
FuzzyMatchThresholdTenths == 7

VARIABLES
  \* EnterpriseOCRService
  isInitialized,      \* service.isInitialized
  processingStats,    \* service.processingStats (counters)
  pc,                 \* position of the processDocument call
  file,               \* the File argument
  maxRetries,         \* opts.maxRetries
  attempt,            \* loop variable
  attemptsUsed,
  lastError,
  delayMs,            \* the backoff delay being waited for
  result,             \* the ProcessingResult returned
  \* EnterpriseOCREngine
  engineInitialized,  \* engine.isInitialized (worker created and configured)
  engineStats,        \* engine.processingStats
  tasks,              \* ocrEngine.processDocument promises of this call, by attempt
                      \* (tasks of an earlier call are no longer tracked)
  \* history
  calls,              \* processDocument calls made so far
  started,            \* recognition tasks started by this call
  initInvoked,        \* this call invoked the engine's initialize()
  outcomes,           \* how each attempt of this call ended, in order
  lastExtracted,      \* record extracted by the latest attempt that parsed
  retained,           \* the OCRResult the orchestrator retained for that attempt
  bestExtracted,      \* best-quality record extracted during this call
  \* performMultiEngineOCR (SpecGrid)
  numVariants, numConfigs,   \* imageVariants.length, ocrConfigs.length
  variantIdx, configIdx,     \* loop variables
  gridPc,                    \* position: the engine call in flight
  bestResult, results,
  cellLog,                   \* history: how each started attempt ended
  \* one application of a pure function (SpecFn)
  fnCall,                    \* the function and its argument
  fnOut,                     \* <<>> before the call returns, <<value>> after
  \* IntelligentParser.parseInvoiceData, amount fields (SpecParse)
  parseInput,                \* rawText and the cleaned lines made of it
  invoice,                   \* invoiceData: total, subtotal, tax, currency
  foundAmounts,              \* allAmounts of extractAmountsAdvanced
  parsePc,                   \* the strategy running
  lineIdx,                   \* loop variable of that strategy
  amountOf,                  \* history: the bestAmount that strategy 4 stored
                             \* in each field, <<>> while it stored none
  \* EnterpriseOCREngine under concurrent callers (SpecInit)
  callerPc,                  \* position of each caller's call
  worker,                    \* engine.worker: 0 for null, else its serial number
  engineIsInitialized,       \* engine.isInitialized
  terminating,               \* terminate() awaits worker.terminate()
  workersCreated,            \* history: workers created since the last
                             \* terminate() finished
  \* OptimizedOCRService.processImageOptimized (SpecOptimized)
  optPc,                     \* position: the call awaited
  psm,                       \* the worker's tessedit_pageseg_mode
  optExits,                  \* history: how each document's call ended
  \* the worker's parameters during performMultiEngineOCR (SpecParams)
  engineParams,              \* the worker's persistent parameters
  prmVariants,               \* imageVariants.length
  prmVariantIdx, prmConfigIdx,
  prmPc                      \* position: the call awaited

ctlVars == <<isInitialized, processingStats, pc, file, maxRetries, attempt,
             attemptsUsed, lastError, delayMs, result, engineInitialized,
             engineStats, tasks, calls, started, initInvoked, outcomes,
             lastExtracted, retained, bestExtracted>>
gridVars == <<numVariants, numConfigs, variantIdx, configIdx, gridPc,
              bestResult, results, cellLog>>
fnVars == <<fnCall, fnOut>>
parseVars == <<parseInput, invoice, foundAmounts, parsePc, lineIdx, amountOf>>
initVars == <<callerPc, worker, engineIsInitialized, terminating, workersCreated>>
optVars == <<optPc, psm, optExits>>
prmVars == <<engineParams, prmVariants, prmVariantIdx, prmConfigIdx, prmPc>>
vars == <<ctlVars, gridVars, fnVars, parseVars, initVars, optVars, prmVars>>
outsideCtl == <<gridVars, fnVars, parseVars, initVars, optVars, prmVars>>
outsideGrid == <<ctlVars, fnVars, parseVars, initVars, optVars, prmVars>>
outsideFn == <<ctlVars, gridVars, parseVars, initVars, optVars, prmVars>>
outsideParse == <<ctlVars, gridVars, fnVars, initVars, optVars, prmVars>>
outsideInit == <<ctlVars, gridVars, fnVars, parseVars, optVars, prmVars>>
outsideOpt == <<ctlVars, gridVars, fnVars, parseVars, initVars, prmVars>>
outsidePrm == <<ctlVars, gridVars, fnVars, parseVars, initVars, optVars>>

\* ------------------------------------------------------------------ inputs
AllowedTypes == {"image/jpeg", "image/jpg", "image/png", "image/gif",
                 "image/bmp", "image/tiff", "image/webp", "application/pdf"}

Files == [size : {MaxFileSize, MaxFileSize + 1},
          type : {"image/png", "text/plain"},
          name : {"", "receipt.png"}]

NoFile == [size |-> 0, type |-> "", name |-> ""]

\* What the engine can recognise in a document: the length of the text (raw
\* and trimmed) and the fields the parser will find in it.  The field sets
\* cover the cases of the acceptance rule: nothing found, an essential field
\* alone, both essential fields, every field but the essential ones, and
\* every field with consistent or inconsistent amounts.
Found(total, vendor, rest, subtotal) ==
  [total |-> total, vendor |-> vendor, subtotal |-> subtotal,
   tax |-> IF rest THEN 1000 ELSE 0, date |-> rest, invoiceNumber |-> rest,
   time |-> rest]

FieldSets == {Found(0, FALSE, FALSE, 0), Found(10000, FALSE, FALSE, 0),
              Found(0, TRUE, FALSE, 0), Found(10000, TRUE, FALSE, 0),
              Found(0, FALSE, TRUE, 9000), Found(10000, TRUE, TRUE, 9000),
              Found(20000, TRUE, TRUE, 9000)}

Text(len, trimLen, e) ==
  [len |-> len, trimLen |-> trimLen, total |-> e.total, vendor |-> e.vendor,
   subtotal |-> e.subtotal, tax |-> e.tax, date |-> e.date,
   invoiceNumber |-> e.invoiceNumber, time |-> e.time]

\* A text too short to be parsed, two texts that are not substantial, and
\* a long text with each of the field sets.
Texts ==
  {Text(12, 5, Found(0, FALSE, FALSE, 0)),
   Text(40, 40, Found(10000, FALSE, FALSE, 0)),
   Text(40, 40, Found(10000, TRUE, TRUE, 9000))}
  \cup {Text(120, 120, e) : e \in FieldSets}

\* ------------------------------------------------- records of the controller
NoData == [rawTextLen |-> 0, total |-> 0, vendor |-> FALSE, subtotal |-> 0,
           tax |-> 0, date |-> FALSE, invoiceNumber |-> FALSE, time |-> FALSE,
           confidence |-> 0]

NoError == [message |-> "", cause |-> ""]

NoResult == [success |-> FALSE, data |-> NoData, error |-> NoError,
             attemptsUsed |-> 0]

Min(a, b) == IF a < b THEN a ELSE b
Max(a, b) == IF a > b THEN a ELSE b
Abs(a) == IF a < 0 THEN 0 - a ELSE a

RECURSIVE Pow2(_)
Pow2(n) == IF n = 0 THEN 1 ELSE 2 * Pow2(n - 1)

\* Math.round of the non-negative quotient a / b.
RoundDiv(a, b) == (2 * a + b) \div (2 * b)

\* calculateQualityScore reading the engine confidence as an error rate.
calculateQualityScore_Inverted(text, confidence) ==
  LET money == IF text.hasMoney THEN 15 ELSE 0
      words == 3 * text.foundWords
  IN  Max(0, Min(100, (100 - confidence) + money + words))

\* calculateQualityScore without the threshold on the special-character
\* ratio: the penalty is subtracted whatever the ratio.
calculateQualityScore_AlwaysPenalised(text, confidence) ==
  LET money == IF text.hasMoney THEN 15 ELSE 0
      words == 3 * text.foundWords
      band == IF text.len > 50 /\ text.len < 5000 THEN 5 ELSE 0
      penalty == IF text.len > 0 THEN RoundDiv(20 * text.special, text.len) ELSE 0
  IN  Max(0, Min(100, confidence + money + words + band - penalty))

calculateQualityScore(text, confidence) ==
  LET money == IF text.hasMoney THEN 15 ELSE 0
      words == 3 * text.foundWords
      band == IF text.len > 50 /\ text.len < 5000 THEN 5 ELSE 0
      \* specialCharRatio > 0.1; the ratio of an empty text is NaN
      noisy == text.len > 0 /\ 10 * text.special > text.len
      penalty == IF noisy THEN RoundDiv(20 * text.special, text.len) ELSE 0
  IN  Max(0, Min(100, confidence + money + words + band - penalty))

\* The OCRResult that performMultiEngineOCR retains for a text of the
\* controller: its length and its quality score, the text being recognised
\* at engine confidence 60 with a monetary token where the parser finds a
\* total and a receipt keyword for each field the parser finds.
NoOcrResult == [len |-> 0, confidence |-> 0]
OcrResultOf(t) ==
  LET kw(present, n) == IF present THEN n ELSE 0
      features ==
        [len |-> t.len, hasMoney |-> t.total # 0,
         foundWords |-> kw(t.total # 0, 1) + kw(t.subtotal # 0, 1) + kw(t.tax # 0, 1)
                          + kw(t.date, 1) + kw(t.time, 1) + kw(t.invoiceNumber, 1),
         special |-> 0]
  IN  [len |-> t.len, confidence |-> calculateQualityScore(features, 60)]

\* validateFile: the error message, or "" for a valid file.
validateFile(f) ==
  IF f.size > MaxFileSize THEN "File size exceeds 50MB limit"
  ELSE IF f.type \notin AllowedTypes THEN "Unsupported file type"
  ELSE IF f.name = "" THEN "Invalid file name"
  ELSE ""

\* IntelligentParser.parseInvoiceData: the record keeps the raw text and the
\* confidence it is given; the strategies fill the fields the text holds.
parseInvoiceData(t, confidence) ==
  [rawTextLen |-> t.len, total |-> t.total, vendor |-> t.vendor,
   subtotal |-> t.subtotal, tax |-> t.tax, date |-> t.date,
   invoiceNumber |-> t.invoiceNumber, time |-> t.time,
   confidence |-> confidence]

\* assessDataQuality, as <<2 * score, maxScore>>; the score is
\* 100 * score / maxScore.
assessDataQuality(data) ==
  LET w(present, pts) == IF present THEN pts ELSE 0
      allAmounts == data.total # 0 /\ data.subtotal # 0 /\ data.tax # 0
      consistent == allAmounts /\
          100 * Abs(data.total - (data.subtotal + data.tax)) < 5 * data.total
      fields == w(data.total # 0, 25) + w(data.vendor, 20) + w(data.date, 15)
                + w(data.subtotal # 0, 10) + w(data.tax # 0, 10)
                + w(data.rawTextLen > LongTextLength, 10)
                + w(data.invoiceNumber, 5) + w(data.time, 5)
      bonus2 == IF data.confidence > 70 THEN Min(30, data.confidence - 70) ELSE 0
  IN  << 2 * (fields + w(consistent, 10)) + bonus2,
         fields + 50 + w(allAmounts, 10) + 15 >>

\* qualityScore >= threshold
QualityAtLeast(q, threshold) == 100 * q[1] >= threshold * 2 * q[2]
\* q1 > q2
QualityGreater(q1, q2) == q1[1] * q2[2] > q2[1] * q1[2]

\* isResultAcceptable with the retry threshold applied to the last attempt too.
isResultAcceptable_OneThreshold(data, qualityScore, isLastAttempt) ==
  /\ QualityAtLeast(qualityScore, MinQualityRetry)
  /\ (data.total # 0 \/ data.vendor)
  /\ data.rawTextLen > SubstantialTextLength

isResultAcceptable(data, qualityScore, isLastAttempt) ==
  LET minQualityScore == IF isLastAttempt THEN MinQualityLast ELSE MinQualityRetry
      hasEssentialData == data.total # 0 \/ data.vendor
      hasSubstantialText == data.rawTextLen > SubstantialTextLength
  IN  QualityAtLeast(qualityScore, minQualityScore) /\ hasEssentialData
      /\ hasSubstantialText

\* The ProcessingResult of an accepted attempt.
successResult(invoiceData, used) ==
  [success |-> TRUE, data |-> invoiceData, error |-> NoError,
   attemptsUsed |-> used]

\* "Last attempt - return what we have"
lowQualityResult_Empty(invoiceData, used) ==
  [success |-> FALSE, data |-> NoData,
   error |-> [message |-> "Low quality result", cause |-> ""],
   attemptsUsed |-> used]

lowQualityResult(invoiceData, used) ==
  [success |-> FALSE, data |-> invoiceData,
   error |-> [message |-> "Low quality result", cause |-> ""],
   attemptsUsed |-> used]

createErrorResult(message, cause, used) ==
  [success |-> FALSE, data |-> NoData,
   error |-> [message |-> message, cause |-> cause], attemptsUsed |-> used]

updateProcessingStats(stats, qualityScore) ==
  [totalDocuments |-> stats.totalDocuments + 1,
   successfulProcessing |-> stats.successfulProcessing +
       (IF QualityAtLeast(qualityScore, MinQualityRetry) THEN 1 ELSE 0)]

\* EnterpriseOCREngine.updateProcessingStats: it counts the document and
\* averages the processing time; averageConfidence, the one field the
\* controller reads, is not assigned.
engineUpdateProcessingStats(stats) ==
  [totalProcessed |-> stats.totalProcessed + 1,
   averageConfidence |-> stats.averageConfidence]

\* The backoff delay without its cap.
backoffDelay_Uncapped(k) == BackoffBaseMs * Pow2(k)

\* Math.min(1000 * Math.pow(2, attempt), 5000)
backoffDelay(k) == Min(BackoffBaseMs * Pow2(k), BackoffCapMs)


\* --------------------------------------------------- Processing Controller
Attempts == 0 .. MaxRetriesBound
NoTasks == [k \in Attempts |-> "none"]
Running(k) == tasks[k] \in {"variants", "grid"}
\* The task the controller is awaiting in processWithTimeout.
Awaited(k) == pc = "awaiting" /\ k = attempt

\* Top of the retry loop for attempt k: attemptsUsed = attempt + 1, then
\* processWithTimeout calls ocrEngine.processDocument(file), which starts
\* with the creation of the image variants.
\* StartAttempt with attemptsUsed = attempt.
StartAttempt_NoIncrement(k, base, n) ==
  /\ attempt' = k
  /\ attemptsUsed' = k
  /\ tasks' = [base EXCEPT ![k] = "variants"]
  /\ started' = n + 1
  /\ pc' = "awaiting"

StartAttempt(k, base, n) ==
  /\ attempt' = k
  /\ attemptsUsed' = k + 1
  /\ tasks' = [base EXCEPT ![k] = "variants"]
  /\ started' = n + 1
  /\ pc' = "awaiting"

Return(r) ==
  /\ pc' = "done"
  /\ result' = r

\* The part of processDocument after the initialisation: validateFile, then
\* the first attempt.
Begin(f, base, n) ==
  IF validateFile(f) # ""
  THEN /\ Return(createErrorResult(validateFile(f), "", 0))
       /\ tasks' = base
       /\ started' = n
       /\ attempt' = 0
       /\ attemptsUsed' = 0
  ELSE /\ StartAttempt(0, base, n)
       /\ result' = NoResult

\* The catch block of the retry loop.
Caught(e) ==
  /\ lastError' = e
  /\ outcomes' = Append(outcomes, e)
  /\ IF attempt = maxRetries
     THEN /\ Return(createErrorResult("Processing failed", e, attemptsUsed))
          /\ UNCHANGED delayMs
     ELSE /\ pc' = "backoff"
          /\ delayMs' = backoffDelay(attempt)
          /\ UNCHANGED result
  /\ UNCHANGED <<attempt, attemptsUsed, started, processingStats,
                 lastExtracted, bestExtracted>>

\* processDocument(file, options) is called.
Call(f, mr) ==
  /\ pc \in {"idle", "done"}
  /\ calls < MaxCalls
  /\ calls' = calls + 1
  /\ file' = f
  /\ maxRetries' = mr
  /\ lastError' = ""
  /\ outcomes' = <<>>
  /\ lastExtracted' = NoData
  /\ retained' = NoOcrResult
  /\ bestExtracted' = NoData
  /\ IF ~isInitialized
     THEN /\ pc' = "initializing"
          /\ initInvoked' = TRUE
          /\ tasks' = NoTasks
          /\ started' = 0
          /\ attempt' = 0
          /\ attemptsUsed' = 0
          /\ result' = NoResult
     ELSE /\ initInvoked' = FALSE
          /\ Begin(f, NoTasks, 0)
  /\ UNCHANGED <<isInitialized, engineInitialized, processingStats,
                 engineStats, delayMs>>

\* ocrEngine.initialize() resolves: worker created and configured.
InitOk ==
  /\ UNCHANGED retained
  /\ pc = "initializing"
  /\ engineInitialized' = TRUE
  /\ isInitialized' = TRUE
  /\ Begin(file, tasks, started)
  /\ UNCHANGED <<processingStats, file, maxRetries, lastError, delayMs,
                 engineStats, calls, initInvoked, outcomes,
                 lastExtracted, bestExtracted>>

\* InitFail with the service marked initialised before the engine is ready.
InitFail_MarksInitialized ==
  /\ UNCHANGED retained
  /\ pc = "initializing"
  /\ isInitialized' = TRUE
  /\ Return(createErrorResult("Initialization failed", "OCR initialization failed", 0))
  /\ UNCHANGED <<engineInitialized, processingStats, file,
                 maxRetries, attempt, attemptsUsed, lastError, delayMs,
                 engineStats, tasks, calls, started, initInvoked,
                 outcomes, lastExtracted, bestExtracted>>

\* ocrEngine.initialize() throws: createWorker or setParameters failed.
InitFail ==
  /\ UNCHANGED retained
  /\ pc = "initializing"
  /\ Return(createErrorResult("Initialization failed", "OCR initialization failed", 0))
  /\ UNCHANGED <<isInitialized, engineInitialized, processingStats, file,
                 maxRetries, attempt, attemptsUsed, lastError, delayMs,
                 engineStats, tasks, calls, started, initInvoked,
                 outcomes, lastExtracted, bestExtracted>>


\* The controller's steps after recognition delivered the text t on the
\* awaited attempt: insufficient-text check, parsing, quality assessment,
\* acceptance decision.
HandleText(t, base) ==
  IF t.trimLen < MinTextLength
  THEN /\ Caught("insufficient")
       /\ tasks' = base
       /\ UNCHANGED retained
  ELSE LET invoiceData == parseInvoiceData(t, engineStats.averageConfidence)
           qualityScore == assessDataQuality(invoiceData)
           isLast == attempt = maxRetries
           isAcceptable == isResultAcceptable(invoiceData, qualityScore, isLast)
       IN  /\ lastExtracted' = invoiceData
           /\ retained' = OcrResultOf(t)
           /\ bestExtracted' =
                IF bestExtracted = NoData
                   \/ QualityGreater(qualityScore, assessDataQuality(bestExtracted))
                THEN invoiceData ELSE bestExtracted
           /\ outcomes' = Append(outcomes, IF isAcceptable THEN "accepted" ELSE "lowQuality")
           /\ IF isAcceptable
              THEN /\ processingStats' = updateProcessingStats(processingStats, qualityScore)
                   /\ Return(successResult(invoiceData, attemptsUsed))
                   /\ tasks' = base
                   /\ UNCHANGED <<attempt, attemptsUsed, started>>
              ELSE IF isLast
              THEN /\ processingStats' = updateProcessingStats(processingStats, qualityScore)
                   /\ Return(lowQualityResult(invoiceData, attemptsUsed))
                   /\ tasks' = base
                   /\ UNCHANGED <<attempt, attemptsUsed, started>>
              ELSE /\ StartAttempt(attempt + 1, base, started)
                   /\ UNCHANGED <<processingStats, result>>
           /\ UNCHANGED <<lastError, delayMs>>

\* createImageVariants of task k resolves and its performMultiEngineOCR
\* starts issuing setParameters/recognize calls on the shared worker.
TaskEntersGrid(k) ==
  /\ UNCHANGED retained
  /\ tasks[k] = "variants"
  /\ tasks' = [tasks EXCEPT ![k] = "grid"]
  /\ UNCHANGED <<isInitialized, processingStats, pc, file, maxRetries, attempt,
                 attemptsUsed, lastError, delayMs, result, engineInitialized,
                 engineStats, calls, started, initInvoked, outcomes,
                 lastExtracted, bestExtracted>>

\* The awaited ocrEngine.processDocument resolves with the best text of
\* its grid before the timer fires.
OcrResolves(t) ==
  /\ pc = "awaiting"
  /\ tasks[attempt] = "grid"
  /\ engineStats' = engineUpdateProcessingStats(engineStats)
  /\ HandleText(t, [tasks EXCEPT ![attempt] = "settled"])
  /\ UNCHANGED <<isInitialized, file, maxRetries, engineInitialized, calls, initInvoked>>

\* The awaited ocrEngine.processDocument throws (the image does not load).
OcrRejects ==
  /\ UNCHANGED retained
  /\ pc = "awaiting"
  /\ tasks[attempt] = "variants"
  /\ tasks' = [tasks EXCEPT ![attempt] = "settled"]
  /\ Caught("engineError")
  /\ UNCHANGED <<isInitialized, file, maxRetries, engineInitialized,
                 engineStats, calls, initInvoked>>

\* Timeout with a timer that is armed only once the task has settled,
\* that is never while the controller awaits it.
Timeout_AfterSettle ==
  /\ UNCHANGED retained
  /\ pc = "awaiting"
  /\ ~Running(attempt)
  /\ Caught("timeout")
  /\ UNCHANGED <<isInitialized, file, maxRetries, engineInitialized,
                 engineStats, tasks, calls, initInvoked>>

\* The timer of processWithTimeout fires first: the promise rejects, the
\* recognition task is not cancelled and keeps running.
Timeout ==
  /\ UNCHANGED retained
  /\ pc = "awaiting"
  /\ Running(attempt)
  /\ Caught("timeout")
  /\ UNCHANGED <<isInitialized, file, maxRetries, engineInitialized,
                 engineStats, tasks, calls, initInvoked>>

\* The backoff delay has elapsed: next iteration of the loop.  The delay
\* is a local of the catch block and is gone with it.
BackoffElapsed ==
  /\ UNCHANGED retained
  /\ pc = "backoff"
  /\ StartAttempt(attempt + 1, tasks, started)
  /\ delayMs' = 0
  /\ UNCHANGED <<isInitialized, processingStats, file, maxRetries, lastError,
                 result, engineInitialized, engineStats, calls,
                 initInvoked, outcomes, lastExtracted, bestExtracted>>

\* AbandonedSettles with the late text parsed like an awaited one.
AbandonedSettles_Parsed(k, ok) ==
  /\ UNCHANGED retained
  /\ ~Awaited(k)
  /\ IF ok THEN tasks[k] = "grid" ELSE tasks[k] = "variants"
  /\ tasks' = [tasks EXCEPT ![k] = "settled"]
  /\ engineStats' = IF ok THEN engineUpdateProcessingStats(engineStats)
                    ELSE engineStats
  /\ lastExtracted' =
       IF ok THEN parseInvoiceData(Text(120, 120, Found(10000, TRUE, FALSE, 0)),
                                   engineStats.averageConfidence)
       ELSE lastExtracted
  /\ UNCHANGED <<isInitialized, processingStats, pc, file, maxRetries, attempt,
                 attemptsUsed, lastError, delayMs, result, engineInitialized,
                 calls, started, initInvoked, outcomes, bestExtracted>>

\* A task whose attempt timed out finishes later; nobody reads its result.
AbandonedSettles(k, ok) ==
  /\ UNCHANGED retained
  /\ ~Awaited(k)
  /\ IF ok THEN tasks[k] = "grid" ELSE tasks[k] = "variants"
  /\ tasks' = [tasks EXCEPT ![k] = "settled"]
  /\ engineStats' = IF ok THEN engineUpdateProcessingStats(engineStats)
                    ELSE engineStats
  /\ UNCHANGED <<isInitialized, processingStats, pc, file, maxRetries, attempt,
                 attemptsUsed, lastError, delayMs, result, engineInitialized,
                 calls, started, initInvoked, outcomes, lastExtracted,
                 bestExtracted>>

CtlInit ==
  /\ isInitialized = FALSE
  /\ processingStats = [totalDocuments |-> 0, successfulProcessing |-> 0]
  /\ pc = "idle"
  /\ file = NoFile
  /\ maxRetries = 0
  /\ attempt = 0
  /\ attemptsUsed = 0
  /\ lastError = ""
  /\ delayMs = 0
  /\ result = NoResult
  /\ engineInitialized = FALSE
  /\ engineStats = [totalProcessed |-> 0, averageConfidence |-> 0]
  /\ tasks = NoTasks
  /\ calls = 0
  /\ started = 0
  /\ initInvoked = FALSE
  /\ outcomes = <<>>
  /\ lastExtracted = NoData
  /\ retained = NoOcrResult
  /\ bestExtracted = NoData

\* ------------------------------------------ Recognition Attempt Orchestrator
\* The first configurations of getOCRConfigurations, by name.
Configs == <<"uniform_block", "single_word">>

\* Recognised texts, by what calculateQualityScore reads of them: length,
\* presence of a monetary token, number of receipt keywords, number of
\* characters outside the allow-list.
BlankText == [len |-> 0, hasMoney |-> FALSE, foundWords |-> 0, special |-> 0]
GarbledText == [len |-> 60, hasMoney |-> FALSE, foundWords |-> 0, special |-> 30]
ReceiptText == [len |-> 120, hasMoney |-> TRUE, foundWords |-> 3, special |-> 0]
GridTexts == {BlankText, GarbledText, ReceiptText}
Confidences == {0, 40}

\* let bestResult = { text: '', confidence: 0, method: '' }
Placeholder == [text |-> BlankText, confidence |-> 0, method |-> <<>>]

\* Update best result
keepBest(best, candidate) ==
  IF candidate.confidence > best.confidence THEN candidate ELSE best

\* End of one iteration of the inner loop: next configuration, next
\* variant, or the return of bestResult.
NextCell ==
  IF configIdx + 1 < numConfigs
  THEN configIdx' = configIdx + 1 /\ gridPc' = "setParameters"
       /\ UNCHANGED variantIdx
  ELSE IF variantIdx + 1 < numVariants
  THEN variantIdx' = variantIdx + 1 /\ configIdx' = 0
       /\ gridPc' = "setParameters"
  ELSE gridPc' = "returned" /\ UNCHANGED <<variantIdx, configIdx>>

\* performMultiEngineOCR(imageVariants, ocrConfigs, filename) is called and
\* issues the first setParameters.
GridStart(n, m) ==
  /\ gridPc = "idle"
  /\ numVariants' = n
  /\ numConfigs' = m
  /\ variantIdx' = 0
  /\ configIdx' = 0
  /\ bestResult' = Placeholder
  /\ results' = <<>>
  /\ cellLog' = <<>>
  /\ gridPc' = "setParameters"

SetParametersOk ==
  /\ gridPc = "setParameters"
  /\ gridPc' = "recognize"
  /\ UNCHANGED <<numVariants, numConfigs, variantIdx, configIdx, bestResult,
                 results, cellLog>>

\* worker.setParameters throws: caught, the attempt is skipped.
SetParametersThrows ==
  /\ gridPc = "setParameters"
  /\ cellLog' = Append(cellLog, "setParametersThrew")
  /\ NextCell
  /\ UNCHANGED <<numVariants, numConfigs, bestResult, results>>

\* worker.recognize resolves with a text and the engine's confidence.
RecognizeOk(text, confidence) ==
  /\ gridPc = "recognize"
  /\ LET qualityScore == calculateQualityScore(text, confidence)
         ocrResult == [text |-> text, confidence |-> qualityScore,
                       method |-> <<variantIdx, Configs[configIdx + 1]>>]
     IN  /\ results' = Append(results, ocrResult)
         /\ bestResult' = keepBest(bestResult, ocrResult)
  /\ cellLog' = Append(cellLog, "completed")
  /\ NextCell
  /\ UNCHANGED <<numVariants, numConfigs>>

\* RecognizeThrows without the try/catch: the exception ends the grid.
RecognizeThrows_Escapes ==
  /\ gridPc = "recognize"
  /\ cellLog' = Append(cellLog, "recognizeThrew")
  /\ gridPc' = "threw"
  /\ UNCHANGED <<numVariants, numConfigs, variantIdx, configIdx, bestResult,
                 results>>

\* worker.recognize throws: caught, the attempt is skipped.
RecognizeThrows ==
  /\ gridPc = "recognize"
  /\ cellLog' = Append(cellLog, "recognizeThrew")
  /\ NextCell
  /\ UNCHANGED <<numVariants, numConfigs, bestResult, results>>

GridIdle ==
  /\ numVariants = 0
  /\ numConfigs = 0
  /\ variantIdx = 0
  /\ configIdx = 0
  /\ gridPc = "idle"
  /\ bestResult = Placeholder
  /\ results = <<>>
  /\ cellLog = <<>>

GridNext ==
  \/ \E n \in 1 .. NumVariants, m \in 1 .. Len(Configs) :
       GridStart(n, m) /\ UNCHANGED outsideGrid
  \/ SetParametersOk /\ UNCHANGED outsideGrid
  \/ SetParametersThrows /\ UNCHANGED outsideGrid
  \/ \E text \in GridTexts, confidence \in Confidences :
       RecognizeOk(text, confidence) /\ UNCHANGED outsideGrid
  \/ RecognizeThrows /\ UNCHANGED outsideGrid

\* ----------------------------------------------------------------- strings
\* A string is the sequence of its characters, e.g. <<"6", "4", ",", "0", "0">>.
DigitChars == <<"0", "1", "2", "3", "4", "5", "6", "7", "8", "9">>
Digits == {DigitChars[i] : i \in 1 .. 10}
DigitVal(c) == (CHOOSE i \in 1 .. 10 : DigitChars[i] = c) - 1

\* str.includes(c), c one character
Includes(str, c) == \E i \in 1 .. Len(str) : str[i] = c

\* str.replace(/[..]/g, '') for a character class and for its complement
RemoveChars(str, class) == SelectSeq(str, LAMBDA c : c \notin class)
KeepChars(str, class) == SelectSeq(str, LAMBDA c : c \in class)

\* str.indexOf(c) and str.lastIndexOf(c), 0-based, -1 when absent
IndexOf(str, c) ==
  IF Includes(str, c)
  THEN (CHOOSE i \in 1 .. Len(str) :
          str[i] = c /\ \A j \in 1 .. (i - 1) : str[j] # c) - 1
  ELSE -1
LastIndexOf(str, c) ==
  IF Includes(str, c)
  THEN (CHOOSE i \in 1 .. Len(str) :
          str[i] = c /\ \A j \in (i + 1) .. Len(str) : str[j] # c) - 1
  ELSE -1

\* str.replace(c, d) with a string pattern: the first occurrence only
ReplaceFirst(str, c, d) ==
  [i \in 1 .. Len(str) |-> IF i = IndexOf(str, c) + 1 THEN d ELSE str[i]]

\* str.substring(from) and str.substring(0, to), 0-based
Drop(str, from) == SubSeq(str, from + 1, Len(str))
Take(str, to) == SubSeq(str, 1, to)

\* Length of the longest run of digits that starts str.
RECURSIVE DigitRun(_)
DigitRun(str) ==
  IF str # <<>> /\ Head(str) \in Digits THEN 1 + DigitRun(Tail(str)) ELSE 0

\* The natural number written by a string of digits (0 for the empty one).
RECURSIVE ToNat(_)
ToNat(digits) ==
  IF digits = <<>> THEN 0
  ELSE 10 * ToNat(Take(digits, Len(digits) - 1)) + DigitVal(digits[Len(digits)])

RECURSIVE Pow10(_)
Pow10(k) == IF k = 0 THEN 1 ELSE 10 * Pow10(k - 1)

\* A JavaScript number that is a non-negative decimal, m / 10^k, or NaN.
NaN == [nan |-> TRUE, m |-> 0, k |-> 0]
Dec(m, k) == [nan |-> FALSE, m |-> m, k |-> k]
NumEq(a, b) == ~a.nan /\ ~b.nan /\ a.m * Pow10(b.k) = b.m * Pow10(a.k)
NumGt(a, b) == ~a.nan /\ ~b.nan /\ a.m * Pow10(b.k) > b.m * Pow10(a.k)

\* parseFloat on a string without sign, exponent or leading white space:
\* the longest prefix digits [. digits] with at least one digit, else NaN.
parseFloat(str) ==
  LET n1 == DigitRun(str)
      rest == Drop(str, n1)
      n2 == IF rest # <<>> /\ Head(rest) = "." THEN DigitRun(Tail(rest)) ELSE 0
  IN  IF n1 + n2 = 0 THEN NaN
      ELSE Dec(ToNat(Take(str, n1) \o SubSeq(rest, 2, n2 + 1)), n2)

\* Math.round(number * 100) / 100
RoundToCents(number) == Dec(RoundDiv(number.m * 100, Pow10(number.k)), 2)

\* str.split(/[..]/) on a class of separator characters
RECURSIVE Split(_, _)
Split(str, seps) ==
  IF \E i \in 1 .. Len(str) : str[i] \in seps
  THEN LET i == CHOOSE i \in 1 .. Len(str) :
                  str[i] \in seps /\ \A j \in 1 .. (i - 1) : str[j] \notin seps
       IN  <<Take(str, i - 1)>> \o Split(Drop(str, i), seps)
  ELSE <<str>>

\* The characters of /[\$€£,\s]/ and of \s
WhiteSpace == {" ", "\t", "\n"}
CurrencyCommaSpace == {"$", "€", "£", ","} \cup WhiteSpace

\* IntelligentParser.parseAmount
IntelligentParser_parseAmount(amountStr) ==
  IF amountStr = <<>> THEN Dec(0, 0)
  ELSE
    LET stripped == RemoveChars(amountStr, CurrencyCommaSpace)
        hasComma == Includes(stripped, ",")
        hasDot == Includes(stripped, ".")
        cleaned ==
          IF hasComma /\ ~hasDot THEN ReplaceFirst(stripped, ",", ".")
          ELSE IF hasComma /\ hasDot
          THEN IF LastIndexOf(stripped, ",") > LastIndexOf(stripped, ".")
               THEN ReplaceFirst(RemoveChars(stripped, {"."}), ",", ".")
               ELSE RemoveChars(stripped, {","})
          ELSE stripped
        number == parseFloat(cleaned)
    IN  IF number.nan THEN Dec(0, 0) ELSE RoundToCents(number)

\* OptimizedOCRService.parseAmount
OptimizedOCRService_parseAmount(amountStr) ==
  IF amountStr = <<>> THEN Dec(0, 0)
  ELSE
    LET stripped == RemoveChars(amountStr, CurrencyCommaSpace)
        cleaned == IF Includes(stripped, ",") /\ ~Includes(stripped, ".")
                   THEN ReplaceFirst(stripped, ",", ".")
                   ELSE stripped
        number == parseFloat(cleaned)
    IN  IF number.nan THEN Dec(0, 0) ELSE RoundToCents(number)

\* /,\d{2}$/.test(str)
EndsWithCommaTwoDigits(str) ==
  /\ Len(str) >= 3
  /\ str[Len(str) - 2] = ","
  /\ str[Len(str) - 1] \in Digits
  /\ str[Len(str)] \in Digits

\* OCRService.parseAmount
OCRService_parseAmount(amountStr) ==
  LET cleaned == KeepChars(amountStr, Digits \cup {".", ","})
      parts == Split(cleaned, {","})
      integerPart == RemoveChars(parts[1], {"."})
      decimalPart == IF parts[2] = <<>> THEN <<"0">> ELSE parts[2]
      number ==
        IF Includes(cleaned, ",") /\ Includes(cleaned, ".")
        THEN parseFloat(integerPart \o <<".">> \o decimalPart)
        ELSE IF Includes(cleaned, ",") /\ EndsWithCommaTwoDigits(cleaned)
        THEN parseFloat(ReplaceFirst(cleaned, ",", "."))
        ELSE parseFloat(RemoveChars(cleaned, {","}))
  IN  IF number.nan THEN Dec(0, 0) ELSE number

\* parseInt on a string without sign or leading white space
parseInt(str) ==
  IF DigitRun(str) = 0 THEN NaN ELSE Dec(ToNat(Take(str, DigitRun(str))), 0)

\* n.toString() of a natural number, and of a number that may be NaN
RECURSIVE NatToString(_)
NatToString(n) ==
  IF n < 10 THEN <<DigitChars[n + 1]>>
  ELSE NatToString(n \div 10) \o <<DigitChars[(n % 10) + 1]>>
toString(number) ==
  IF number.nan THEN <<"N", "a", "N">> ELSE NatToString(number.m)

\* str.padStart(2, '0')
padStart2(str) ==
  IF Len(str) = 0 THEN <<"0", "0">>
  ELSE IF Len(str) = 1 THEN <<"0">> \o str ELSE str

\* comparisons of a number that may be NaN with a constant
NumLe(number, n) == ~number.nan /\ number.m <= n
NumLt(number, n) == ~number.nan /\ number.m < n
NumAbove(number, n) == ~number.nan /\ number.m > n
\* number + n
NumPlus(number, n) == IF number.nan THEN NaN ELSE Dec(number.m + n, 0)

DateSeparators == {"/", "-", "."}

\* `${month..padStart(2, '0')}/${day..padStart(2, '0')}/${year}`
DateString(month, day, year) ==
  padStart2(month) \o <<"/">> \o padStart2(day) \o <<"/">> \o year

\* IntelligentParser.normalizeDate
IntelligentParser_normalizeDate(dateStr) ==
  LET cleanDate == KeepChars(dateStr, Digits \cup DateSeparators)
      parts == Split(cleanDate, DateSeparators)
      part1 == parseInt(parts[1])
      part2 == parseInt(parts[2])
      part3 == parseInt(parts[3])
      shortYear == NumPlus(part3, IF NumLt(part3, 50) THEN 2000 ELSE 1900)
  IN  IF Len(parts) # 3 THEN dateStr
      ELSE IF NumAbove(part3, 1900)
      THEN IF NumLe(part1, 12) /\ NumLe(part2, 31)
           THEN DateString(toString(part1), toString(part2), toString(part3))
           ELSE IF NumLe(part2, 12) /\ NumLe(part1, 31)
           THEN DateString(toString(part2), toString(part1), toString(part3))
           ELSE dateStr
      ELSE IF NumLe(part1, 12)
      THEN DateString(toString(part1), toString(part2), toString(shortYear))
      ELSE DateString(toString(part2), toString(part1), toString(shortYear))

\* OptimizedOCRService.normalizeDate
OptimizedOCRService_normalizeDate(dateStr) ==
  LET parts == Split(dateStr, DateSeparators)
      part1 == parseInt(parts[1])
      part2 == parseInt(parts[2])
      part3 == parseInt(parts[3])
      shortYear == NumPlus(part3, IF NumLt(part3, 50) THEN 2000 ELSE 1900)
  IN  IF Len(parts) # 3 THEN dateStr
      ELSE IF NumAbove(part3, 1900)
      THEN IF NumLe(part1, 12)
           THEN DateString(toString(part1), toString(part2), toString(part3))
           ELSE DateString(toString(part2), toString(part1), toString(part3))
      ELSE DateString(toString(part1), toString(part2), toString(shortYear))

\* OCRService.normalizeDate
OCRService_normalizeDate(dateStr) ==
  LET cleanDate == KeepChars(dateStr, Digits \cup DateSeparators)
      parts == Split(cleanDate, DateSeparators)
      part1 == parts[1]
      part2 == parts[2]
      part3 == parts[3]
  IN  IF Len(parts) # 3 THEN dateStr
      ELSE IF Len(part3) = 4
      THEN IF NumLe(parseInt(part1), 12)
           THEN DateString(part1, part2, part3)
           ELSE DateString(part2, part1, part3)
      ELSE IF Len(part1) = 4
      THEN DateString(part2, part3, part1)
      ELSE dateStr

\* ------------------------------------------------------ regular expressions
\* A regular expression is a tree; Ends(re, str, i) lists the positions at
\* which a match of re that starts at position i (1-based) can end, in the
\* order in which a backtracking matcher tries them.  The first one is the
\* match JavaScript reports.
UpperChars == <<"A", "B", "C", "D", "E", "F", "G", "H", "I", "J", "K", "L", "M",
                "N", "O", "P", "Q", "R", "S", "T", "U", "V", "W", "X", "Y", "Z">>
LowerChars == <<"a", "b", "c", "d", "e", "f", "g", "h", "i", "j", "k", "l", "m",
                "n", "o", "p", "q", "r", "s", "t", "u", "v", "w", "x", "y", "z">>
Letters == {UpperChars[i] : i \in 1 .. 26} \cup {LowerChars[i] : i \in 1 .. 26}
WordChars == Letters \cup Digits \cup {"_"}

\* c.toLowerCase() and str.toLowerCase()
LowerChar(c) ==
  IF \E i \in 1 .. 26 : UpperChars[i] = c
  THEN LowerChars[CHOOSE i \in 1 .. 26 : UpperChars[i] = c]
  ELSE c
toLowerCase(str) == [i \in 1 .. Len(str) |-> LowerChar(str[i])]

\* [..], [^..], a literal, a literal under the i flag
Chr(class) == [op |-> "set", set |-> class]
NotChr(class) == [op |-> "nset", set |-> class]
Lit(str) == [op |-> "lit", str |-> str]
LitI(str) == [op |-> "ilit", str |-> toLowerCase(str)]
\* r1 r2 .. and r1 | r2 | ..
Cat(args) == [op |-> "cat", args |-> args]
Alt(args) == [op |-> "alt", args |-> args]
\* r{min,max}, greedy; r*, r+, r?
Rep(re, min, max) == [op |-> "rep", re |-> re, min |-> min, max |-> max]
\* r{min,max}?, lazy
LazyRep(re, min, max) == [op |-> "lrep", re |-> re, min |-> min, max |-> max]
Star(re) == Rep(re, 0, -1)
Plus(re) == Rep(re, 1, -1)
Opt(re) == Rep(re, 0, 1)
\* \b, ^, $, (?!r) and .
WordBoundary == [op |-> "b"]
Bol == [op |-> "bol"]
Eol == [op |-> "eol"]
NotAhead(re) == [op |-> "nla", re |-> re]
AnyChar == NotChr({"\n"})
Digit == Chr(Digits)
Space == Chr(WhiteSpace)

IsWordAt(str, i) == i >= 1 /\ i <= Len(str) /\ str[i] \in WordChars

RECURSIVE Ends(_, _, _)
RECURSIVE EndsFrom(_, _, _)
RECURSIVE CatEnds(_, _, _)
RECURSIVE AltEnds(_, _, _)
RECURSIVE RepEnds(_, _, _, _, _)
RECURSIVE RepFrom(_, _, _, _, _)
RECURSIVE LazyRepEnds(_, _, _, _, _)
RECURSIVE LazyRepFrom(_, _, _, _, _)

\* Ends of re started at each of the positions starts, in order.
EndsFrom(re, str, starts) ==
  IF starts = <<>> THEN <<>>
  ELSE Ends(re, str, Head(starts)) \o EndsFrom(re, str, Tail(starts))

CatEnds(args, str, starts) ==
  IF args = <<>> THEN starts
  ELSE CatEnds(Tail(args), str, EndsFrom(Head(args), str, starts))

AltEnds(args, str, i) ==
  IF args = <<>> THEN <<>>
  ELSE Ends(Head(args), str, i) \o AltEnds(Tail(args), str, i)

\* Greedy repetition: one more iteration first, stopping here last.
RepFrom(re, min, max, str, starts) ==
  IF starts = <<>> THEN <<>>
  ELSE RepEnds(re, min, max, str, Head(starts))
         \o RepFrom(re, min, max, str, Tail(starts))

RepEnds(re, min, max, str, i) ==
  LET once == SelectSeq(Ends(re, str, i), LAMBDA e : e > i)
      more == IF max = 0 THEN <<>>
              ELSE RepFrom(re, IF min > 0 THEN min - 1 ELSE 0,
                           IF max > 0 THEN max - 1 ELSE max, str, once)
  IN  more \o (IF min <= 0 THEN <<i>> ELSE <<>>)

\* Lazy repetition: stopping here first, one more iteration last.
LazyRepFrom(re, min, max, str, starts) ==
  IF starts = <<>> THEN <<>>
  ELSE LazyRepEnds(re, min, max, str, Head(starts))
         \o LazyRepFrom(re, min, max, str, Tail(starts))

LazyRepEnds(re, min, max, str, i) ==
  LET once == SelectSeq(Ends(re, str, i), LAMBDA e : e > i)
      more == IF max = 0 THEN <<>>
              ELSE LazyRepFrom(re, IF min > 0 THEN min - 1 ELSE 0,
                               IF max > 0 THEN max - 1 ELSE max, str, once)
  IN  (IF min <= 0 THEN <<i>> ELSE <<>>) \o more

Ends(re, str, i) ==
  CASE re.op = "set" ->
         IF i <= Len(str) /\ str[i] \in re.set THEN <<i + 1>> ELSE <<>>
    [] re.op = "nset" ->
         IF i <= Len(str) /\ str[i] \notin re.set THEN <<i + 1>> ELSE <<>>
    [] re.op = "lit" ->
         IF i + Len(re.str) - 1 <= Len(str)
            /\ SubSeq(str, i, i + Len(re.str) - 1) = re.str
         THEN <<i + Len(re.str)>> ELSE <<>>
    [] re.op = "ilit" ->
         IF i + Len(re.str) - 1 <= Len(str)
            /\ toLowerCase(SubSeq(str, i, i + Len(re.str) - 1)) = re.str
         THEN <<i + Len(re.str)>> ELSE <<>>
    [] re.op = "cat" -> CatEnds(re.args, str, <<i>>)
    [] re.op = "alt" -> AltEnds(re.args, str, i)
    [] re.op = "rep" -> RepEnds(re.re, re.min, re.max, str, i)
    [] re.op = "lrep" -> LazyRepEnds(re.re, re.min, re.max, str, i)
    [] re.op = "b" ->
         IF IsWordAt(str, i - 1) # IsWordAt(str, i) THEN <<i>> ELSE <<>>
    [] re.op = "bol" -> IF i = 1 THEN <<i>> ELSE <<>>
    [] re.op = "eol" -> IF i = Len(str) + 1 THEN <<i>> ELSE <<>>
    [] re.op = "nla" -> IF Ends(re.re, str, i) = <<>> THEN <<i>> ELSE <<>>

\* The leftmost match of re in str at or after position from:
\* [start, end) in 1-based positions, or NoMatch.
NoMatch == [start |-> 0, end |-> 0]
FirstMatch(re, str, from) ==
  LET starts == {i \in from .. (Len(str) + 1) : Ends(re, str, i) # <<>>}
  IN  IF starts = {} THEN NoMatch
      ELSE LET i == CHOOSE i \in starts : \A j \in starts : i <= j
           IN  [start |-> i, end |-> Head(Ends(re, str, i))]

\* re.test(str)
Test(re, str) == FirstMatch(re, str, 1) # NoMatch

\* Every match of a global expression, as exec() in a loop and match() give.
RECURSIVE MatchAll(_, _, _)
MatchAll(re, str, from) ==
  LET m == FirstMatch(re, str, from)
  IN  IF m = NoMatch THEN <<>>
      ELSE <<m>> \o MatchAll(re, str, IF m.end = m.start THEN m.end + 1 ELSE m.end)

\* The text of a match
Matched(str, m) == SubSeq(str, m.start, m.end - 1)

\* Where the first part of a match of (first)(rest) that starts at i ends.
GroupEnd(first, rest, str, i) ==
  LET ends == SelectSeq(Ends(first, str, i), LAMBDA e : Ends(rest, str, e) # <<>>)
  IN  Head(ends)

\* ---------------------------------------------------------- IntelligentParser
\* str.includes(sub)
Contains(str, sub) == Test(Lit(sub), str)

\* str.trim()
RECURSIVE TrimStart(_)
TrimStart(str) ==
  IF str # <<>> /\ Head(str) \in WhiteSpace THEN TrimStart(Tail(str)) ELSE str
RECURSIVE TrimEnd(_)
TrimEnd(str) ==
  IF str # <<>> /\ str[Len(str)] \in WhiteSpace
  THEN TrimEnd(Take(str, Len(str) - 1)) ELSE str
Trim(str) == TrimEnd(TrimStart(str))

\* str with its matches (in order, not overlapping) replaced by the
\* replacements of the same index: str.replace(/../g, ..)
RECURSIVE Splice(_, _, _, _)
Splice(str, matches, repls, from) ==
  IF matches = <<>> THEN SubSeq(str, from, Len(str))
  ELSE SubSeq(str, from, Head(matches).start - 1) \o Head(repls)
         \o Splice(str, Tail(matches), Tail(repls), Head(matches).end)

\* str.replace(re, with) for a global re and a constant replacement
ReplaceAll(str, re, with) ==
  LET matches == MatchAll(re, str, 1)
  IN  Splice(str, matches, [k \in 1 .. Len(matches) |-> with], 1)

\* /(\d)\s*[,.]\s*(\d{2})(?!\d)/g
DecimalSeparator ==
  Cat(<<Digit, Star(Space), Chr({",", "."}), Star(Space), Rep(Digit, 2, 2),
        NotAhead(Digit)>>)

\* cleaned.replace(/(\d)\s*[,.]\s*(\d{2})(?!\d)/g, '$1.$2')
FixDecimalSeparators(str) ==
  LET matches == MatchAll(DecimalSeparator, str, 1)
      fixed(m) == <<str[m.start], ".", str[m.end - 2], str[m.end - 1]>>
  IN  Splice(str, matches, [k \in 1 .. Len(matches) |-> fixed(matches[k])], 1)

\* One line through preprocessLines (the texts hold no typographic quotes).
preprocessLine(line) ==
  LET spaced == Trim(ReplaceAll(line, Plus(Space), <<" ">>))
      piped == ReplaceAll(spaced, Chr({"|", "\\"}), <<" ">>)
      decimals == FixDecimalSeparators(piped)
  IN  ReplaceAll(decimals, Cat(<<Lit(<<"$">>), Plus(Space)>>), <<"$">>)

\* rawText.split('\n').map(line => line.trim()).filter(Boolean), then
\* preprocessLines
cleanedLines(rawText) ==
  LET split == Split(rawText, {"\n"})
      trimmed == SelectSeq([k \in 1 .. Len(split) |-> Trim(split[k])],
                           LAMBDA line : line # <<>>)
  IN  SelectSeq([k \in 1 .. Len(trimmed) |-> preprocessLine(trimmed[k])],
                LAMBDA line : Len(line) > 0)

\* The Levenshtein distance of calculateSimilarity, row by row:
\* NextRow(prev, c, str2) is row i of the matrix from row i - 1.
RECURSIVE RowFrom(_, _, _, _)
RowFrom(prev, c, str2, row) ==
  IF Len(row) = Len(prev) THEN row
  ELSE LET j == Len(row)
           cost == IF c = str2[j] THEN 0 ELSE 1
       IN  RowFrom(prev, c, str2,
                   Append(row, Min(Min(prev[j + 1] + 1, row[j] + 1),
                                   prev[j] + cost)))
NextRow(prev, c, str2) == RowFrom(prev, c, str2, <<prev[1] + 1>>)

RECURSIVE LastRow(_, _, _)
LastRow(str1, str2, i) ==
  IF i = 0 THEN [j \in 1 .. (Len(str2) + 1) |-> j - 1]
  ELSE NextRow(LastRow(str1, str2, i - 1), str1[i], str2)

Distance(str1, str2) == LastRow(str1, str2, Len(str1))[Len(str2) + 1]

\* calculateSimilarity as the fraction <<maxLength - distance, maxLength>>
calculateSimilarity(str1, str2) ==
  LET maxLength == Max(Len(str1), Len(str2))
  IN  IF maxLength = 0 THEN <<1, 1>>
      ELSE <<maxLength - Distance(str1, str2), maxLength>>

\* similarity >= this.config.fuzzyMatchThreshold, the threshold being 0.7
fuzzyMatch(text, pattern) ==
  LET similarity == calculateSimilarity(text, pattern)
  IN  10 * similarity[1] >= FuzzyMatchThresholdTenths * similarity[2]

\* const fuzzyPatterns = { total: [..], subtotal: [..], .. }, in key order
fuzzyPatterns ==
  <<[field |-> "total", variations |->
       <<<<"t", "o", "t", "a", "l">>,
         <<"t", "o", "t", "a", "a", "l">>,
         <<"t", "o", "t", "a", "1">>,
         <<"t", "0", "t", "a", "l">>,
         <<"t", "a", "t", "o", "l">>,
         <<"i", "o", "t", "a", "l">>,
         <<"f", "o", "t", "a", "l">>>>],
    [field |-> "subtotal", variations |->
       <<<<"s", "u", "b", "t", "o", "t", "a", "l">>,
         <<"s", "u", "b", " ", "t", "o", "t", "a", "l">>,
         <<"s", "u", "b", "t", "o", "t", "a", "a", "l">>,
         <<"s", "u", "b", "-", "t", "o", "t", "a", "l">>,
         <<"s", "u", "b", "l", "o", "t", "a", "l">>>>],
    [field |-> "tax", variations |->
       <<<<"t", "a", "x">>,
         <<"b", "t", "w">>,
         <<"v", "a", "t">>,
         <<"s", "a", "l", "e", "s", " ", "t", "a", "x">>,
         <<"t", "a", "x", ":">>,
         <<"t", "o", "x">>,
         <<"i", "a", "x">>>>],
    [field |-> "amount", variations |->
       <<<<"a", "m", "o", "u", "n", "t">>,
         <<"b", "e", "d", "r", "a", "g">>,
         <<"a", "m", "0", "u", "n", "t">>,
         <<"a", "m", "o", "u", "h", "t">>,
         <<"a", "m", "0", "u", "n", "t">>>>],
    [field |-> "invoice", variations |->
       <<<<"i", "n", "v", "o", "i", "c", "e">>,
         <<"f", "a", "c", "t", "u", "u", "r">>,
         <<"i", "n", "v", "0", "i", "c", "e">>,
         <<"i", "n", "v", "o", "i", "c", "3">>,
         <<"1", "n", "v", "o", "i", "c", "e">>>>]>>

\* invoiceData with its amount fields; 0 and "" stand for an unset field.
\* Amounts are in cents.
NoInvoice == [total |-> 0, subtotal |-> 0, tax |-> 0, currency |-> ""]

\* The parser's own parseAmount, in cents
AmountCents(amountStr) == IntelligentParser_parseAmount(amountStr).m

\* /\$?(\d+[,.]?\d*)/g
NumberToken ==
  Cat(<<Opt(Lit(<<"$">>)), Plus(Digit), Opt(Chr({",", "."})), Star(Digit)>>)

processFuzzyMatchedLine(invoiceData, line, fieldType) ==
  LET numberMatch == MatchAll(NumberToken, line, 1)
      amount == AmountCents(Matched(line, numberMatch[Len(numberMatch)]))
  IN  IF numberMatch = <<>> \/ amount <= 0 THEN invoiceData
      ELSE IF fieldType = "total"
              /\ (invoiceData.total = 0 \/ amount > invoiceData.total)
      THEN [invoiceData EXCEPT !.total = amount]
      ELSE IF fieldType = "subtotal" /\ invoiceData.subtotal = 0
      THEN [invoiceData EXCEPT !.subtotal = amount]
      ELSE IF fieldType = "tax" /\ invoiceData.tax = 0
      THEN [invoiceData EXCEPT !.tax = amount]
      ELSE invoiceData

\* Some variation of the field matches the lower-cased line.
FuzzyFieldMatches(lowerLine, variations) ==
  \E k \in 1 .. Len(variations) : fuzzyMatch(lowerLine, variations[k])

\* The body of extractWithFuzzyMatching's outer loop for one line: every
\* field whose variations match processes the line, in key order.
RECURSIVE fuzzyLine(_, _, _)
fuzzyLine(invoiceData, line, fields) ==
  IF fields = <<>> THEN invoiceData
  ELSE LET matched == FuzzyFieldMatches(toLowerCase(line), Head(fields).variations)
           next == IF matched
                   THEN processFuzzyMatchedLine(invoiceData, line, Head(fields).field)
                   ELSE invoiceData
       IN  fuzzyLine(next, line, Tail(fields))

\* amountPatterns, each as what stands before its capture group, the group
\* and what stands after it.
Empty == Cat(<<>>)
UsNumber(fraction) ==
  Cat(<<Rep(Digit, 1, 6), Star(Cat(<<Lit(<<",">>), Rep(Digit, 3, 3)>>)), fraction>>)
EuNumber ==
  Cat(<<Rep(Digit, 1, 6), Star(Cat(<<Lit(<<".">>), Rep(Digit, 3, 3)>>)),
        Lit(<<",">>), Rep(Digit, 2, 2)>>)
amountPatterns ==
  << \* /\$(\d{1,6}(?:,\d{3})*\.?\d{0,2})\b/g
     [pre |-> Lit(<<"$">>),
      group |-> UsNumber(Cat(<<Opt(Lit(<<".">>)), Rep(Digit, 0, 2)>>)),
      post |-> WordBoundary],
     \* /(\d{1,6}(?:,\d{3})*\.\d{2})\s*(?:\$|USD|usd)/gi
     [pre |-> Empty,
      group |-> UsNumber(Cat(<<Lit(<<".">>), Rep(Digit, 2, 2)>>)),
      post |-> Cat(<<Star(Space), Alt(<<Lit(<<"$">>), LitI(<<"u", "s", "d">>)>>)>>)],
     \* /€(\d{1,6}(?:\.\d{3})*,\d{2})\b/g
     [pre |-> Lit(<<"€">>), group |-> EuNumber, post |-> WordBoundary],
     \* /(\d{1,6}(?:\.\d{3})*,\d{2})\s*(?:€|EUR|eur)/gi
     [pre |-> Empty, group |-> EuNumber,
      post |-> Cat(<<Star(Space), Alt(<<Lit(<<"€">>), LitI(<<"e", "u", "r">>)>>)>>)],
     \* /\b(\d{1,4}\.\d{2})\b/g
     [pre |-> WordBoundary,
      group |-> Cat(<<Rep(Digit, 1, 4), Lit(<<".">>), Rep(Digit, 2, 2)>>),
      post |-> WordBoundary],
     \* /\b(\d{1,3},\d{2})\b/g
     [pre |-> WordBoundary,
      group |-> Cat(<<Rep(Digit, 1, 3), Lit(<<",">>), Rep(Digit, 2, 2)>>),
      post |-> WordBoundary] >>

\* detectCurrency
detectCurrency(amountStr) ==
  IF Includes(amountStr, "$") THEN "USD"
  ELSE IF Includes(amountStr, "€") THEN "EUR"
  ELSE IF Includes(amountStr, "£") THEN "GBP"
  ELSE IF Test(Cat(<<Plus(Digit), Lit(<<",">>), Rep(Digit, 2, 2)>>), amountStr)
  THEN "EUR"
  ELSE IF Test(Cat(<<Plus(Digit), Lit(<<".">>), Rep(Digit, 2, 2)>>), amountStr)
  THEN "USD"
  ELSE ""

\* calculateAmountConfidence; position is match.index, 0-based
calculateAmountConfidence(amountStr, fullText, position) ==
  LET contextStart == Max(0, position - 50)
      contextEnd == Min(Len(fullText), position + 50)
      context == toLowerCase(SubSeq(fullText, contextStart + 1, contextEnd))
      w(cond, points) == IF cond THEN points ELSE 0
      value == AmountCents(amountStr)
      dollars == Cat(<<Bol, Lit(<<"$">>), Plus(Digit), Lit(<<".">>),
                       Rep(Digit, 2, 2), Eol>>)
      plain == Cat(<<Bol, Plus(Digit), Lit(<<".">>), Rep(Digit, 2, 2), Eol>>)
      confidence ==
        50 + w(Contains(context, <<"t", "o", "t", "a", "l">>), 25)
           + w(Contains(context, <<"s", "u", "b", "t", "o", "t", "a", "l">>), 20)
           + w(\/ Contains(context, <<"t", "a", "x">>)
               \/ Contains(context, <<"v", "a", "t">>)
               \/ Contains(context, <<"b", "t", "w">>), 20)
           + w(Contains(context, <<"a", "m", "o", "u", "n", "t">>), 15)
           + w(Contains(context, <<"d", "u", "e">>), 15)
           + w(Test(dollars, amountStr), 20)
           + w(Test(plain, amountStr), 10)
           - w(value < 1 \/ value > 500000, 20)
           - w(Contains(amountStr, <<"0", "0", "0">>), 10)
  IN  Max(0, Min(100, confidence))

\* The amounts one pattern finds in rawText, in the order of its matches.
patternAmounts(pattern, text) ==
  LET whole == Cat(<<pattern.pre, pattern.group, pattern.post>>)
      matches == MatchAll(whole, text, 1)
      groupFrom(m) == Head(Ends(pattern.pre, text, m.start))
      groupTo(m) ==
        GroupEnd(Cat(<<pattern.pre, pattern.group>>), pattern.post, text, m.start)
      amountStr(m) == SubSeq(text, groupFrom(m), groupTo(m) - 1)
      found == [k \in 1 .. Len(matches) |->
                  [value |-> AmountCents(amountStr(matches[k])),
                   currency |-> detectCurrency(Matched(text, matches[k])),
                   confidence |->
                     calculateAmountConfidence(Matched(text, matches[k]), text,
                                               matches[k].start - 1),
                   source |-> Matched(text, matches[k])]]
  IN  \* if (value > 0 && value < 10000)
      SelectSeq(found, LAMBDA a : a.value > 0 /\ a.value < 1000000)

\* allAmounts at the end of the extraction loop of extractAmountsAdvanced
RECURSIVE extractAmounts(_, _)
extractAmounts(patterns, text) ==
  IF patterns = <<>> THEN <<>>
  ELSE patternAmounts(Head(patterns), text) \o extractAmounts(Tail(patterns), text)

\* amounts.reduce((best, curr) => curr.confidence > best.confidence ? curr : best)
bestAmount(amounts) ==
  amounts[CHOOSE k \in 1 .. Len(amounts) :
            /\ \A j \in 1 .. Len(amounts) : amounts[j].confidence <= amounts[k].confidence
            /\ \A j \in 1 .. (k - 1) : amounts[j].confidence < amounts[k].confidence]

\* /total.*:|total\s*$/, /subtotal|sub.total/ and /tax|btw|vat/
TotalContext ==
  Alt(<<Cat(<<Lit(<<"t", "o", "t", "a", "l">>), Star(AnyChar), Lit(<<":">>)>>),
        Cat(<<Lit(<<"t", "o", "t", "a", "l">>), Star(Space), Eol>>)>>)
SubtotalContext ==
  Alt(<<Lit(<<"s", "u", "b", "t", "o", "t", "a", "l">>),
        Cat(<<Lit(<<"s", "u", "b">>), AnyChar, Lit(<<"t", "o", "t", "a", "l">>)>>)>>)
TaxContext ==
  Alt(<<Lit(<<"t", "a", "x">>), Lit(<<"b", "t", "w">>), Lit(<<"v", "a", "t">>)>>)

\* amounts.filter(..): the amounts whose source occurs in line i joined
\* with the line after it (i is 0-based).
lineAmounts(amounts, lines, i) ==
  LET nextLine == IF i < Len(lines) - 1 THEN lines[i + 2] ELSE <<>>
      lineText == toLowerCase(lines[i + 1] \o <<" ">> \o nextLine)
  IN  SelectSeq(amounts, LAMBDA a : Contains(lineText, toLowerCase(a.source)))

\* The branch of the if / else-if chain that line i takes: the field it
\* assigns, or "" when it assigns none.
assignedField(invoiceData, amounts, lines, i) ==
  LET line == toLowerCase(lines[i + 1])
  IN  IF Len(lineAmounts(amounts, lines, i)) = 0 THEN ""
      ELSE IF Test(TotalContext, line) /\ invoiceData.total = 0 THEN "total"
      ELSE IF Test(SubtotalContext, line) /\ invoiceData.subtotal = 0 THEN "subtotal"
      ELSE IF Test(TaxContext, line) /\ invoiceData.tax = 0 THEN "tax"
      ELSE ""

\* The body of assignAmountsWithContext's loop for line i (0-based).
assignLine(invoiceData, amounts, lines, i) ==
  LET best == bestAmount(lineAmounts(amounts, lines, i))
      field == assignedField(invoiceData, amounts, lines, i)
  IN  IF field = "total"
      THEN [invoiceData EXCEPT !.total = best.value, !.currency = best.currency]
      ELSE IF field = "subtotal" THEN [invoiceData EXCEPT !.subtotal = best.value]
      ELSE IF field = "tax" THEN [invoiceData EXCEPT !.tax = best.value]
      ELSE invoiceData

\* if (!invoiceData.currency && amounts.length > 0): the first amount that
\* has a currency gives it
firstCurrency(invoiceData, amounts) ==
  LET currencies == SelectSeq(amounts, LAMBDA a : a.currency # "")
  IN  IF invoiceData.currency = "" /\ Len(currencies) > 0
      THEN [invoiceData EXCEPT !.currency = currencies[1].currency]
      ELSE invoiceData

\* The fallback of finalizeAmountAssignment assigns the total.
fallbackAssigns(invoiceData, amounts) ==
  invoiceData.total = 0 /\ Len(amounts) > 0 /\ bestAmount(amounts).confidence > 50

finalizeAmountAssignment(invoiceData, amounts) ==
  LET best == bestAmount(amounts)
      assigned ==
        IF fallbackAssigns(invoiceData, amounts)
        THEN [invoiceData EXCEPT !.total = best.value, !.currency = best.currency]
        ELSE invoiceData
  IN  firstCurrency(assigned, amounts)

\* /^(.{3,50}?)\s+.*?\$?(\d+\.?\d{0,2})\s*$/ in four parts: the first
\* group, what stands between the groups, the second group, the rest.
ItemDescription == Cat(<<Bol, LazyRep(AnyChar, 3, 50)>>)
ItemFiller == Cat(<<Plus(Space), LazyRep(AnyChar, 0, -1), Opt(Lit(<<"$">>))>>)
ItemPrice == Cat(<<Plus(Digit), Opt(Lit(<<".">>)), Rep(Digit, 0, 2)>>)
ItemEnd == Cat(<<Star(Space), Eol>>)
itemPattern == Cat(<<ItemDescription, ItemFiller, ItemPrice, ItemEnd>>)

\* /(total|subtotal|tax|amount)/i
ItemKeywords ==
  Alt(<<LitI(<<"t", "o", "t", "a", "l">>),
        LitI(<<"s", "u", "b", "t", "o", "t", "a", "l">>),
        LitI(<<"t", "a", "x">>), LitI(<<"a", "m", "o", "u", "n", "t">>)>>)

\* The body of extractLineItems' loop for line i (1-based here): the items
\* it pushes.  The field line is history: the line the item was made of.
lineItems(lines, i) ==
  LET line == lines[i]
      end1 == GroupEnd(ItemDescription, Cat(<<ItemFiller, ItemPrice, ItemEnd>>), line, 1)
      start2 == GroupEnd(ItemFiller, Cat(<<ItemPrice, ItemEnd>>), line, end1)
      end2 == GroupEnd(ItemPrice, ItemEnd, line, start2)
      description == Trim(SubSeq(line, 1, end1 - 1))
      amount == IntelligentParser_parseAmount(SubSeq(line, start2, end2 - 1))
  IN  IF Ends(itemPattern, line, 1) = <<>> THEN <<>>
      ELSE IF /\ NumGt(amount, Dec(0, 0))
              /\ NumGt(Dec(200, 0), amount)
              /\ ~Test(ItemKeywords, description)
              /\ Len(description) > 5
      THEN <<[description |-> description, amount |-> amount, quantity |-> 1,
              unitPrice |-> amount, line |-> i]>>
      ELSE <<>>

RECURSIVE itemsFrom(_, _)
itemsFrom(lines, i) ==
  IF i > Len(lines) THEN <<>> ELSE lineItems(lines, i) \o itemsFrom(lines, i + 1)

extractLineItems(lines) == itemsFrom(lines, 1)

\* --------------------------------------------------------- pure functions
\* One call of a pure function: fnCall names the function and carries its
\* argument, fnOut receives the value returned.
NoCall == [fn |-> "none", arg |-> <<>>]

FnIdle ==
  /\ fnCall = NoCall
  /\ fnOut = <<>>

\* Texts handed to calculateQualityScore, by the features it reads.
ScoreLengths == {0, 50, 51, 4999, 5000}
ScoreTexts ==
  {t \in [len : ScoreLengths, hasMoney : BOOLEAN, foundWords : {0, 3, 8},
          special : {0, 5, 6, 50}] : t.special <= t.len}
EngineConfidences == 0 .. 100

\* createCanvasVariants without the 400..2500 clamp of the target width.
createCanvasVariants_NoClamp(sourceWidth, sourceHeight) ==
  LET targetWidth == sourceWidth * 2
      targetHeight == RoundDiv(targetWidth * sourceHeight, sourceWidth)
  IN  [i \in 1 .. 4 |->
         [name |-> <<"enhanced", "blackwhite", "sharpened", "textOptimized">>[i],
          width |-> targetWidth, height |-> targetHeight]]

\* canvas.width = width; canvas.height = height; return { canvas, name, .. }
createProcessedVariant(width, height, name) ==
  [name |-> name, width |-> width, height |-> height]

createCanvasVariants(sourceWidth, sourceHeight) ==
  LET minWidth == 400
      maxWidth == 2500
      targetWidth == Max(minWidth, Min(maxWidth, sourceWidth * 2))
      targetHeight == RoundDiv(targetWidth * sourceHeight, sourceWidth)
  IN  << createProcessedVariant(targetWidth, targetHeight, "enhanced"),
         createProcessedVariant(targetWidth, targetHeight, "blackwhite"),
         createProcessedVariant(targetWidth, targetHeight, "sharpened"),
         createProcessedVariant(targetWidth, targetHeight, "textOptimized") >>

\* Source images, by their dimensions in pixels.
SourceWidths == {1, 3, 199, 200, 201, 640, 1249, 1250, 1251, 3000}
SourceHeights == {1, 7, 480, 4000}

ScoreCalls ==
  {[fn |-> "calculateQualityScore", arg |-> [text |-> t, confidence |-> c]] :
     t \in ScoreTexts, c \in EngineConfidences}
CanvasCalls ==
  {[fn |-> "createCanvasVariants", arg |-> [width |-> w, height |-> h]] :
     w \in SourceWidths, h \in SourceHeights}

ApplyCalculateQualityScore ==
  /\ fnCall.fn = "calculateQualityScore"
  /\ fnOut = <<>>
  /\ fnOut' = <<calculateQualityScore(fnCall.arg.text, fnCall.arg.confidence)>>
  /\ UNCHANGED fnCall

ApplyCreateCanvasVariants ==
  /\ fnCall.fn = "createCanvasVariants"
  /\ fnOut = <<>>
  /\ fnOut' = <<createCanvasVariants(fnCall.arg.width, fnCall.arg.height)>>
  /\ UNCHANGED fnCall

\* Amount strings: the three of the specification, a few more, and every
\* string of at most MaxAmountLen characters over a small alphabet.
AmountAlphabet == {"1", "2", ".", ",", "$"}
EuropeanThousands == <<"1", ".", "2", "3", "4", ",", "5", "6">>
DollarAmount == <<"$", "6", "4", ".", "0", "0">>
EuropeanDecimal == <<"6", "4", ",", "0", "0">>
NamedAmounts ==
  {EuropeanThousands, DollarAmount, EuropeanDecimal,
   <<"1", ",", "2", "3", "4", ".", "5", "6">>,
   <<"€", "6", "4", ",", "0", "0">>,
   <<"4", "2", ".", "5", "0", " ", "$">>}
AmountStrings ==
  NamedAmounts \cup UNION {[1 .. n -> AmountAlphabet] : n \in 0 .. MaxAmountLen}

\* Date strings: three numeric parts around one separator, and two that
\* normalizeDate cannot split into three parts or has to clean first.
DateParts ==
  {<<"1">>, <<"1", "2">>, <<"1", "3">>, <<"2", "5">>, <<"3", "2">>,
   <<"4", "9">>, <<"9", "9">>, <<"1", "9", "0", "0">>, <<"2", "0", "2", "4">>}
DateStrings ==
  {a \o <<sep>> \o b \o <<sep>> \o c :
     a \in DateParts, b \in DateParts, c \in DateParts, sep \in DateSeparators}
  \cup {<<"1", "2", "/", "2", "0", "2", "4">>,
        <<"D", "2", "5", "/", "1", "2", "/", "2", "0", "2", "4">>}

ParseAmountImpls ==
  {"IntelligentParser.parseAmount", "OptimizedOCRService.parseAmount",
   "OCRService.parseAmount"}
NormalizeDateImpls ==
  {"IntelligentParser.normalizeDate", "OptimizedOCRService.normalizeDate",
   "OCRService.normalizeDate"}
ParseAmountCalls == [fn : ParseAmountImpls, arg : AmountStrings]
NormalizeDateCalls == [fn : NormalizeDateImpls, arg : DateStrings]

\* lines.join('\n')
RECURSIVE JoinLines(_)
JoinLines(lines) ==
  IF Len(lines) = 1 THEN lines[1]
  ELSE lines[1] \o <<"\n">> \o JoinLines(Tail(lines))

\* Lines of a receipt as extractLineItems may get them.
ItemLines ==
  {<<"C", "o", "f", "f", "e", "e", " ", " ", "4", ".", "5", "0">>,
   <<"I", "n", "v", "o", "i", "c", "e", " ", "t", "o", "t", "a", "l", " ",
     "4", "2", ".", "5", "0">>,
   <<"T", "o", "t", "a", "l", " ", "4", "2", ".", "5", "0">>,
   <<"M", "u", "f", "f", "i", "n", " ", "i", "n", "c", "l", " ", "t", "a", "x",
     " ", "$", "3", ",", "4", "0">>,
   <<"E", "s", "p", "r", "e", "s", "s", "o", " ", "2", "5", "0", ".", "0", "0">>,
   <<"N", "a", "p", "k", "i", "n", "s", " ", "0">>,
   <<"T", "e", "a", " ", "2", ".", "0", "0">>,
   <<"T", "h", "a", "n", "k", " ", "y", "o", "u">>}

\* Raw texts of one to MaxTextLines of these lines.
ItemTexts ==
  {JoinLines(lines) : lines \in UNION {[1 .. n -> ItemLines] : n \in 1 .. MaxTextLines}}
ItemCalls == [fn : {"extractLineItems"}, arg : ItemTexts]

\* fn is called with the argument drawn and returns value.
Apply(fn, value) ==
  /\ fnCall.fn = fn
  /\ fnOut = <<>>
  /\ fnOut' = <<value>>
  /\ UNCHANGED fnCall

ApplyIntelligentParserParseAmount ==
  Apply("IntelligentParser.parseAmount", IntelligentParser_parseAmount(fnCall.arg))
ApplyOptimizedParseAmount ==
  Apply("OptimizedOCRService.parseAmount", OptimizedOCRService_parseAmount(fnCall.arg))
ApplyOCRServiceParseAmount ==
  Apply("OCRService.parseAmount", OCRService_parseAmount(fnCall.arg))
ApplyIntelligentParserNormalizeDate ==
  Apply("IntelligentParser.normalizeDate", IntelligentParser_normalizeDate(fnCall.arg))
ApplyOptimizedNormalizeDate ==
  Apply("OptimizedOCRService.normalizeDate", OptimizedOCRService_normalizeDate(fnCall.arg))
ApplyOCRServiceNormalizeDate ==
  Apply("OCRService.normalizeDate", OCRService_normalizeDate(fnCall.arg))
\* invoiceData.items = this.extractLineItems(cleanedLines)
ApplyExtractLineItems ==
  Apply("extractLineItems", extractLineItems(cleanedLines(fnCall.arg)))

\* -------------------------------------------- parseInvoiceData, amount fields
\* Lines a recognised text is made of.
TotalLine ==
  <<"T", "O", "T", "A", "L", ":", " ", "$", "4", "2", ".", "5", "0">>
TaxIncludedLine ==
  <<"T", "a", "x", " ", "i", "n", "c", "l", "u", "d", "e", "d">>
SubtotalLabelLine ==
  <<"S", "u", "b", "t", "o", "t", "a", "l", " ", "(", "e", "x", "c", "l", ")">>
CorruptedTotalLine == <<"T", "0", "T", "A", "L", " ", "5", "5", ".", "0", "0">>
SmallTotalLine == <<"T", "o", "t", "a", "l", " ", "5">>
LargeTotalLine == <<"T", "o", "t", "a", "l", " ", "9">>
ThanksLine == <<"T", "h", "a", "n", "k", " ", "y", "o", "u">>
TaxLine == <<"T", "A", "X", ":", " ", "$", "3", ".", "4", "0">>
SubtotalLine ==
  <<"S", "u", "b", " ", "t", "o", "t", "a", "l", " ", "3", "9", ",", "1", "0">>
PlainAmountLine ==
  <<"C", "o", "f", "f", "e", "e", " ", " ", "4", ".", "5", "0">>
LinePool ==
  {TotalLine, TaxIncludedLine, SubtotalLabelLine, CorruptedTotalLine, SmallTotalLine,
   LargeTotalLine, ThanksLine, TaxLine, SubtotalLine, PlainAmountLine}

\* Raw texts of one to MaxTextLines lines.
ParseTexts ==
  {JoinLines(lines) : lines \in UNION {[1 .. n -> LinePool] : n \in 1 .. MaxTextLines}}

\* No field has an amount of strategy 4 yet.
NoAmounts == [total |-> <<>>, subtotal |-> <<>>, tax |-> <<>>]

\* parseInvoiceData(rawText, ..) is called; strategies 1 and 2 (basic and
\* contextual fields) set no amount field.
ParseStart(text) ==
  /\ parsePc = "idle"
  /\ parseInput' = [rawText |-> text, lines |-> cleanedLines(text)]
  /\ invoice' = NoInvoice
  /\ foundAmounts' = <<>>
  /\ lineIdx' = 0
  /\ parsePc' = "fuzzy"
  /\ amountOf' = NoAmounts

\* Strategy 3, one iteration of the loop over the lines.
FuzzyLine ==
  /\ parsePc = "fuzzy"
  /\ lineIdx < Len(parseInput.lines)
  /\ invoice' = fuzzyLine(invoice, parseInput.lines[lineIdx + 1], fuzzyPatterns)
  /\ lineIdx' = lineIdx + 1
  /\ UNCHANGED <<parseInput, foundAmounts, parsePc, amountOf>>

\* Strategy 4 begins: every pattern is run over rawText.
ExtractAmounts ==
  /\ parsePc = "fuzzy"
  /\ lineIdx = Len(parseInput.lines)
  /\ foundAmounts' = extractAmounts(amountPatterns, parseInput.rawText)
  /\ lineIdx' = 0
  /\ parsePc' = "context"
  /\ UNCHANGED <<parseInput, invoice, amountOf>>

\* assignAmountsWithContext, one iteration of the loop over the lines.
AssignLine ==
  /\ parsePc = "context"
  /\ lineIdx < Len(parseInput.lines)
  /\ invoice' = assignLine(invoice, foundAmounts, parseInput.lines, lineIdx)
  /\ amountOf' =
       LET field == assignedField(invoice, foundAmounts, parseInput.lines, lineIdx)
           best == bestAmount(lineAmounts(foundAmounts, parseInput.lines, lineIdx))
       IN  IF field = "" THEN amountOf ELSE [amountOf EXCEPT ![field] = <<best>>]
  /\ lineIdx' = lineIdx + 1
  /\ UNCHANGED <<parseInput, foundAmounts, parsePc>>

\* finalizeAmountAssignment; strategies 5 and 6 and the validation that
\* follow set no amount field, so this is the record returned.
Finalize ==
  /\ parsePc = "context"
  /\ lineIdx = Len(parseInput.lines)
  /\ invoice' = finalizeAmountAssignment(invoice, foundAmounts)
  /\ amountOf' =
       IF fallbackAssigns(invoice, foundAmounts)
       THEN [amountOf EXCEPT !.total = <<bestAmount(foundAmounts)>>]
       ELSE amountOf
  /\ parsePc' = "done"
  /\ UNCHANGED <<parseInput, foundAmounts, lineIdx>>

ParseNext ==
  \/ \E text \in ParseTexts : ParseStart(text) /\ UNCHANGED outsideParse
  \/ FuzzyLine /\ UNCHANGED outsideParse
  \/ ExtractAmounts /\ UNCHANGED outsideParse
  \/ AssignLine /\ UNCHANGED outsideParse
  \/ Finalize /\ UNCHANGED outsideParse

FnCalls ==
  ScoreCalls \cup CanvasCalls \cup ParseAmountCalls \cup NormalizeDateCalls
  \cup ItemCalls

FnInit ==
  /\ fnCall \in FnCalls
  /\ fnOut = <<>>

FnNext ==
  \/ ApplyCalculateQualityScore /\ UNCHANGED outsideFn
  \/ ApplyCreateCanvasVariants /\ UNCHANGED outsideFn
  \/ ApplyIntelligentParserParseAmount /\ UNCHANGED outsideFn
  \/ ApplyOptimizedParseAmount /\ UNCHANGED outsideFn
  \/ ApplyOCRServiceParseAmount /\ UNCHANGED outsideFn
  \/ ApplyIntelligentParserNormalizeDate /\ UNCHANGED outsideFn
  \/ ApplyOptimizedNormalizeDate /\ UNCHANGED outsideFn
  \/ ApplyOCRServiceNormalizeDate /\ UNCHANGED outsideFn
  \/ ApplyExtractLineItems /\ UNCHANGED outsideFn

NoInput == [rawText |-> <<>>, lines |-> <<>>]

ParseIdle ==
  /\ parseInput = NoInput
  /\ invoice = NoInvoice
  /\ foundAmounts = <<>>
  /\ parsePc = "idle"
  /\ lineIdx = 0
  /\ amountOf = NoAmounts

\* ------------------------------ EnterpriseOCREngine under concurrent callers
\* Each caller makes one call, engine.initialize() (as EnterpriseOCRService
\* .initialize does) or engine.processDocument(file).  A call runs without
\* interruption up to its next await.
Callers == 1 .. NumCallers

\* initialize() up to its first await: return if isInitialized, else call
\* createWorker.
EnterInitialize(c) ==
  /\ callerPc' = [callerPc EXCEPT ![c] =
                    IF engineIsInitialized THEN "done" ELSE "creating"]
  /\ UNCHANGED <<worker, engineIsInitialized, terminating, workersCreated>>

\* Caller c calls engine.initialize().
CallInitialize(c) ==
  /\ callerPc[c] = "idle"
  /\ EnterInitialize(c)

\* Caller c calls engine.processDocument(file):
\* if (!this.worker || !this.isInitialized) await this.initialize()
CallProcessDocument(c) ==
  /\ callerPc[c] = "idle"
  /\ IF worker = 0 \/ ~engineIsInitialized
     THEN EnterInitialize(c)
     ELSE /\ callerPc' = [callerPc EXCEPT ![c] = "done"]
          /\ UNCHANGED <<worker, engineIsInitialized, terminating, workersCreated>>

\* this.worker = await createWorker('eng'), then setParameters is called.
CreateWorkerResolves(c) ==
  /\ callerPc[c] = "creating"
  /\ workersCreated < NumCallers
  /\ workersCreated' = workersCreated + 1
  /\ worker' = workersCreated + 1
  /\ callerPc' = [callerPc EXCEPT ![c] = "configuring"]
  /\ UNCHANGED <<engineIsInitialized, terminating>>

\* createWorker rejects: initialize() throws.
CreateWorkerRejects(c) ==
  /\ callerPc[c] = "creating"
  /\ callerPc' = [callerPc EXCEPT ![c] = "failed"]
  /\ UNCHANGED <<worker, engineIsInitialized, terminating, workersCreated>>

\* await this.worker.setParameters(..) resolves: this.isInitialized = true
SetInitialParametersResolves(c) ==
  /\ callerPc[c] = "configuring"
  /\ engineIsInitialized' = TRUE
  /\ callerPc' = [callerPc EXCEPT ![c] = "done"]
  /\ UNCHANGED <<worker, terminating, workersCreated>>

\* setParameters rejects (or this.worker is null again): initialize() throws.
SetInitialParametersRejects(c) ==
  /\ callerPc[c] = "configuring"
  /\ callerPc' = [callerPc EXCEPT ![c] = "failed"]
  /\ UNCHANGED <<worker, engineIsInitialized, terminating, workersCreated>>

\* terminate(): if (this.worker) await this.worker.terminate()
TerminateBegin ==
  /\ ~terminating
  /\ worker # 0
  /\ terminating' = TRUE
  /\ UNCHANGED <<callerPc, worker, engineIsInitialized, workersCreated>>

\* this.worker = null; this.isInitialized = false
TerminateEnd ==
  /\ terminating
  /\ terminating' = FALSE
  /\ worker' = 0
  /\ engineIsInitialized' = FALSE
  /\ workersCreated' = 0
  /\ UNCHANGED callerPc

InitIdle ==
  /\ callerPc = [c \in Callers |-> "idle"]
  /\ worker = 0
  /\ engineIsInitialized = FALSE
  /\ terminating = FALSE
  /\ workersCreated = 0

InitNext ==
  \/ \E c \in Callers : CallInitialize(c) /\ UNCHANGED outsideInit
  \/ \E c \in Callers : CallProcessDocument(c) /\ UNCHANGED outsideInit
  \/ \E c \in Callers : CreateWorkerResolves(c) /\ UNCHANGED outsideInit
  \/ \E c \in Callers : CreateWorkerRejects(c) /\ UNCHANGED outsideInit
  \/ \E c \in Callers : SetInitialParametersResolves(c) /\ UNCHANGED outsideInit
  \/ \E c \in Callers : SetInitialParametersRejects(c) /\ UNCHANGED outsideInit
  \/ TerminateBegin /\ UNCHANGED outsideInit
  \/ TerminateEnd /\ UNCHANGED outsideInit

\* ------------------------------ OptimizedOCRService.processImageOptimized
\* The call ends: the text is returned, or the error is thrown.
OptExit(how, outcome) ==
  /\ optPc' = outcome
  /\ optExits' = Append(optExits, how)

\* processImageOptimized(file) is called for the next document on the
\* initialised service and awaits createOptimizedImage.
OptCall ==
  /\ optPc \in {"idle", "returned", "threw"}
  /\ Len(optExits) < MaxDocuments
  /\ optPc' = "createImage"
  /\ UNCHANGED <<psm, optExits>>

\* createOptimizedImage resolves: the primary recognition is issued.
CreateImageResolves ==
  /\ optPc = "createImage"
  /\ optPc' = "primary"
  /\ UNCHANGED <<psm, optExits>>

\* createOptimizedImage rejects, outside of any try block.
CreateImageRejects ==
  /\ optPc = "createImage"
  /\ OptExit("imageFailed", "threw")
  /\ UNCHANGED psm

\* The primary recognition resolves with a text of length len at the
\* given confidence.
PrimaryResolves(len, confidence) ==
  /\ optPc = "primary"
  /\ IF len > 50 /\ confidence > 60
     THEN OptExit("primary", "returned")
     ELSE optPc' = "setMode8" /\ UNCHANGED optExits
  /\ UNCHANGED psm

\* The primary recognition throws: caught, the fallback is tried.
PrimaryThrows ==
  /\ optPc = "primary"
  /\ optPc' = "setMode8"
  /\ UNCHANGED <<psm, optExits>>

\* setParameters({tessedit_pageseg_mode: 8}) resolves.
SetMode8Resolves ==
  /\ optPc = "setMode8"
  /\ psm' = 8
  /\ optPc' = "fallback"
  /\ UNCHANGED optExits

\* setParameters({tessedit_pageseg_mode: 8}) rejects: 'OCR processing failed'
SetMode8Rejects ==
  /\ optPc = "setMode8"
  /\ OptExit("setMode8Failed", "threw")
  /\ UNCHANGED psm

\* The fallback recognition resolves: the mode is reset next.
FallbackResolves ==
  /\ optPc = "fallback"
  /\ optPc' = "setMode6"
  /\ UNCHANGED <<psm, optExits>>

\* The fallback recognition throws: the catch block throws 'OCR processing
\* failed'.
FallbackThrows ==
  /\ optPc = "fallback"
  /\ OptExit("fallbackThrew", "threw")
  /\ UNCHANGED psm

\* setParameters({tessedit_pageseg_mode: 6}) resolves and the text of the
\* fallback is returned.
SetMode6Resolves ==
  /\ optPc = "setMode6"
  /\ psm' = 6
  /\ OptExit("fallback", "returned")

\* setParameters({tessedit_pageseg_mode: 6}) rejects.
SetMode6Rejects ==
  /\ optPc = "setMode6"
  /\ OptExit("setMode6Failed", "threw")
  /\ UNCHANGED psm

\* initialize() has set tessedit_pageseg_mode 6.
OptIdle ==
  /\ optPc = "idle"
  /\ psm = 6
  /\ optExits = <<>>

OptNext ==
  \/ OptCall /\ UNCHANGED outsideOpt
  \/ CreateImageResolves /\ UNCHANGED outsideOpt
  \/ CreateImageRejects /\ UNCHANGED outsideOpt
  \/ \E len \in {50, 51}, confidence \in {60, 61} :
       PrimaryResolves(len, confidence) /\ UNCHANGED outsideOpt
  \/ PrimaryThrows /\ UNCHANGED outsideOpt
  \/ SetMode8Resolves /\ UNCHANGED outsideOpt
  \/ SetMode8Rejects /\ UNCHANGED outsideOpt
  \/ FallbackResolves /\ UNCHANGED outsideOpt
  \/ FallbackThrows /\ UNCHANGED outsideOpt
  \/ SetMode6Resolves /\ UNCHANGED outsideOpt
  \/ SetMode6Rejects /\ UNCHANGED outsideOpt

\* ------------------------- engine parameters during performMultiEngineOCR
\* The character whitelists of the source, by name.
AlphanumericWhitelist == "0123456789A-Za-z.,/$():- \\n\\t"
DigitsWhitelist == "0123456789.$,"

getOCRConfigurations ==
  << [psm |-> 6, name |-> "uniform_block",
      parameters |-> [preserve_interword_spaces |-> "1",
                      tessedit_char_whitelist |-> AlphanumericWhitelist]],
     [psm |-> 8, name |-> "single_word",
      parameters |-> [preserve_interword_spaces |-> "1",
                      tessedit_char_whitelist |-> DigitsWhitelist]],
     [psm |-> 7, name |-> "single_text_line",
      parameters |-> [preserve_interword_spaces |-> "1"]],
     [psm |-> 4, name |-> "single_column",
      parameters |-> [preserve_interword_spaces |-> "1"]],
     [psm |-> 3, name |-> "fully_automatic",
      parameters |-> [preserve_interword_spaces |-> "1"]],
     [psm |-> 11, name |-> "sparse_text",
      parameters |-> [preserve_interword_spaces |-> "1"]],
     [psm |-> 13, name |-> "raw_line",
      parameters |-> [preserve_interword_spaces |-> "1"]] >>

\* { ...base, ...over }
Spread(base, over) ==
  [k \in DOMAIN base \cup DOMAIN over |->
     IF k \in DOMAIN over THEN over[k] ELSE base[k]]

\* const parameters = { tessedit_pageseg_mode: parseInt(config.psm),
\*                      ...config.parameters }
attemptParameters(config) ==
  Spread([tessedit_pageseg_mode |-> config.psm], config.parameters)

\* worker.setParameters(params): the given keys are merged into the worker's
\* persistent parameters.
setParameters(state, params) == Spread(state, params)

\* The configuration of the attempt in progress.
prmConfig == getOCRConfigurations[prmConfigIdx + 1]

\* End of one iteration of the inner loop.
PrmNextCell ==
  IF prmConfigIdx + 1 < Len(getOCRConfigurations)
  THEN prmConfigIdx' = prmConfigIdx + 1 /\ prmPc' = "setParameters"
       /\ UNCHANGED prmVariantIdx
  ELSE IF prmVariantIdx + 1 < prmVariants
  THEN prmVariantIdx' = prmVariantIdx + 1 /\ prmConfigIdx' = 0
       /\ prmPc' = "setParameters"
  ELSE prmPc' = "returned" /\ UNCHANGED <<prmVariantIdx, prmConfigIdx>>

\* performMultiEngineOCR is called with n image variants and all the
\* configurations, on the worker as the previous document left it.
PrmStart(n) ==
  /\ prmPc \in {"idle", "returned"}
  /\ prmVariants' = n
  /\ prmVariantIdx' = 0
  /\ prmConfigIdx' = 0
  /\ prmPc' = "setParameters"
  /\ UNCHANGED engineParams

\* await this.worker.setParameters(parameters) resolves.
ApplyParameters ==
  /\ prmPc = "setParameters"
  /\ engineParams' = setParameters(engineParams, attemptParameters(prmConfig))
  /\ prmPc' = "recognize"
  /\ UNCHANGED <<prmVariants, prmVariantIdx, prmConfigIdx>>

\* setParameters throws: caught, the attempt is skipped.
ApplyParametersThrows ==
  /\ prmPc = "setParameters"
  /\ PrmNextCell
  /\ UNCHANGED <<engineParams, prmVariants>>

\* worker.recognize resolves or throws: the loop goes on.
AttemptRecognized ==
  /\ prmPc = "recognize"
  /\ PrmNextCell
  /\ UNCHANGED <<engineParams, prmVariants>>

\* The worker after EnterpriseOCREngine.initialize().
PrmIdle ==
  /\ engineParams = [tessedit_pageseg_mode |-> 6,
                     preserve_interword_spaces |-> "1",
                     tessedit_char_whitelist |-> AlphanumericWhitelist]
  /\ prmVariants = 0
  /\ prmVariantIdx = 0
  /\ prmConfigIdx = 0
  /\ prmPc = "idle"

PrmNext ==
  \/ \E n \in 1 .. NumVariants : PrmStart(n) /\ UNCHANGED outsidePrm
  \/ ApplyParameters /\ UNCHANGED outsidePrm
  \/ ApplyParametersThrows /\ UNCHANGED outsidePrm
  \/ AttemptRecognized /\ UNCHANGED outsidePrm

Init ==
  CtlInit /\ GridIdle /\ FnIdle /\ ParseIdle /\ InitIdle /\ OptIdle /\ PrmIdle

Next ==
  \/ \E f \in Files, mr \in 0 .. MaxRetriesBound : Call(f, mr) /\ UNCHANGED outsideCtl
  \/ InitOk /\ UNCHANGED outsideCtl
  \/ InitFail /\ UNCHANGED outsideCtl
  \/ \E k \in Attempts : TaskEntersGrid(k) /\ UNCHANGED outsideCtl
  \/ \E t \in Texts : OcrResolves(t) /\ UNCHANGED outsideCtl
  \/ OcrRejects /\ UNCHANGED outsideCtl
  \/ Timeout /\ UNCHANGED outsideCtl
  \/ BackoffElapsed /\ UNCHANGED outsideCtl
  \/ \E k \in Attempts, ok \in BOOLEAN : AbandonedSettles(k, ok) /\ UNCHANGED outsideCtl

Spec == Init /\ [][Next]_vars

\* Texts of the three kinds an attempt can recognise: too short, parsed
\* into a record that is not acceptable, parsed into an acceptable one.
LiveTexts ==
  {Text(12, 5, Found(0, FALSE, FALSE, 0)),
   Text(40, 40, Found(10000, FALSE, FALSE, 0)),
   Text(120, 120, Found(10000, TRUE, TRUE, 9000))}

\* The steps of the controller, with these texts.
NextLive ==
  \/ \E f \in Files, mr \in 0 .. MaxRetriesBound :
       Call(f, mr) /\ UNCHANGED outsideCtl
  \/ InitOk /\ UNCHANGED outsideCtl
  \/ InitFail /\ UNCHANGED outsideCtl
  \/ \E k \in Attempts : TaskEntersGrid(k) /\ UNCHANGED outsideCtl
  \/ \E t \in LiveTexts : OcrResolves(t) /\ UNCHANGED outsideCtl
  \/ OcrRejects /\ UNCHANGED outsideCtl
  \/ Timeout /\ UNCHANGED outsideCtl
  \/ BackoffElapsed /\ UNCHANGED outsideCtl
  \/ \E k \in Attempts, ok \in BOOLEAN : AbandonedSettles(k, ok) /\ UNCHANGED outsideCtl

\* The controller with its timers: the timer of processWithTimeout fires
\* unless the attempt has ended before, and the backoff delay elapses.  The
\* engine is under no obligation to answer.
SpecLive ==
  /\ Init
  /\ [][NextLive]_vars
  /\ WF_vars(Timeout /\ UNCHANGED outsideCtl)
  /\ WF_vars(BackoffElapsed /\ UNCHANGED outsideCtl)

SpecGrid == Init /\ [][GridNext]_vars

InitFn ==
  CtlInit /\ GridIdle /\ ParseIdle /\ InitIdle /\ OptIdle /\ PrmIdle /\ FnInit

SpecFn == InitFn /\ [][FnNext]_vars

SpecParse == Init /\ [][ParseNext]_vars

SpecInit == Init /\ [][InitNext]_vars

SpecOptimized == Init /\ [][OptNext]_vars

SpecParams == Init /\ [][PrmNext]_vars


\* ================================================================= claims
Last(seq) == seq[Len(seq)]
Range(seq) == {seq[i] : i \in 1 .. Len(seq)}
Quality(data) == assessDataQuality(data)
\* The retry budget of the call is used up: every attempt has ended.
Exhausted == pc = "done" /\ Len(outcomes) = maxRetries + 1

\* C1: the attemptsUsed that processDocument returns is at most
\* maxRetries + 1 and is the number of recognition attempts the call started;
\* no call starts more than maxRetries + 1 of them.
C1_AttemptsUsedBounded ==
  /\ started <= maxRetries + 1
  /\ pc = "done" => /\ result.attemptsUsed <= maxRetries + 1
                    /\ result.attemptsUsed = started

\* A call with retries that used its whole budget, one attempt timing out.
C1_Witness ==
  /\ pc = "done"
  /\ maxRetries >= 1
  /\ result.attemptsUsed = maxRetries + 1
  /\ \E i \in 1 .. Len(outcomes) : outcomes[i] = "timeout"

\* C2: when the final attempt recognises and parses but its record is not
\* acceptable, the call returns success = false, the record of that attempt
\* (raw text not empty) and an error; the call always ends by returning.
C2_LowQualityFinalAttempt ==
  /\ pc \in {"idle", "initializing", "awaiting", "backoff", "done"}
  /\ (pc = "done" /\ outcomes # <<>> /\ Last(outcomes) = "lowQuality") =>
       /\ result.success = FALSE
       /\ result.data = lastExtracted
       /\ result.data.rawTextLen > 0
       /\ result.error.message # ""

\* A call with retries whose final attempt gave an unacceptable record.
C2_Witness ==
  /\ pc = "done"
  /\ maxRetries >= 1
  /\ Len(outcomes) = maxRetries + 1
  /\ Last(outcomes) = "lowQuality"
  /\ result.data.rawTextLen >= MinTextLength

\* C3 (as claimed): a failure returned on exhaustion of the retry budget
\* carries a record with a non-empty raw text whenever some attempt of the
\* call extracted a record.
C3_FailureCarriesPartialRecord ==
  (Exhausted /\ ~result.success /\ bestExtracted # NoData) =>
    result.data.rawTextLen > 0

\* C4 (as claimed): when every attempt gives an unacceptable record, the
\* record returned has the highest data-quality score of the call.
C4_BestRecordReturned ==
  (Exhausted /\ \A i \in 1 .. Len(outcomes) : outcomes[i] = "lowQuality") =>
    ~QualityGreater(Quality(bestExtracted), Quality(result.data))

\* C5: a record is accepted iff its quality is >= 60 (>= 30 on the final
\* attempt), a total or a vendor was found and the raw text is longer than
\* 50 characters; the call returns success at the first accepted record and
\* starts no attempt after it, and loops while retries remain otherwise.
C5_AcceptanceRule(data, isLast) ==
  /\ QualityAtLeast(Quality(data), IF isLast THEN 30 ELSE 60)
  /\ (data.total > 0 \/ data.vendor)
  /\ data.rawTextLen > 50

C5_Step ==
  Len(outcomes') = Len(outcomes) + 1 =>
    LET isLast == attempt = maxRetries
        parsed == Last(outcomes') \in {"accepted", "lowQuality"}
        ok == parsed /\ C5_AcceptanceRule(lastExtracted', isLast)
    IN  /\ parsed => (Last(outcomes') = "accepted" <=> ok)
        /\ ok => /\ pc' = "done"
                 /\ result'.success
                 /\ result'.data = lastExtracted'
                 /\ started' = started
                 /\ \A i \in 1 .. Len(outcomes) : outcomes[i] # "accepted"
        /\ (~ok /\ isLast) => pc' = "done" /\ ~result'.success
        /\ (~ok /\ ~isLast) =>
             /\ pc' \in {"awaiting", "backoff"}
             /\ pc' = "awaiting" <=> parsed
             /\ result' = result
        /\ (parsed /\ ~ok /\ ~isLast) => attempt' = attempt + 1

C5_AcceptedAtFirstAcceptable ==
  /\ [][C5_Step]_vars
  /\ [](pc = "done" /\ result.success => Last(outcomes) = "accepted")

\* A record below 60 accepted on the final attempt, after a retry.
C5_Witness ==
  /\ pc = "done"
  /\ result.success
  /\ maxRetries >= 1
  /\ Len(outcomes) = maxRetries + 1
  /\ ~QualityAtLeast(Quality(result.data), 60)

\* C6 (as claimed): an oversized document or one of a type outside the
\* allow-list is rejected with a validation error, with no attempt made and
\* before the engine is initialised.
C6_RejectedBeforeProcessing ==
  (pc = "done" /\ (file.size > MaxFileSize \/ file.type \notin AllowedTypes)) =>
    /\ ~result.success
    /\ result.attemptsUsed = 0
    /\ started = 0
    /\ result.error.message \in {"File size exceeds 50MB limit", "Unsupported file type"}
    /\ ~initInvoked

\* C7 (as claimed): at most one grid loop of the document issues
\* setParameters/recognize calls on the shared worker at any time.
C7_SequentialRecognition ==
  Cardinality({k \in Attempts : tasks[k] = "grid"}) <= 1

\* C8 (as claimed): once some attempt completed, performMultiEngineOCR
\* returns the completed attempt with the highest quality score, the first
\* in grid order among equals.
C8_FirstHighestReturned ==
  (gridPc = "returned" /\ results # <<>>) =>
    \E i \in 1 .. Len(results) :
      /\ bestResult = results[i]
      /\ \A j \in 1 .. Len(results) : results[j].confidence <= results[i].confidence
      /\ \A j \in 1 .. (i - 1) : results[j].confidence < results[i].confidence

\* C9 (as claimed): when every attempt of the grid failed with an engine
\* exception, the orchestrator raises an error instead of returning a result.
C9_AllFailedSurfacesError ==
  (/\ gridPc \notin {"idle", "setParameters", "recognize"}
   /\ \A i \in 1 .. Len(cellLog) : cellLog[i] # "completed") =>
    gridPc = "threw"

\* C10: an exception of setParameters or recognize skips that attempt only:
\* every one of the N x M attempts is started whatever fails, and
\* performMultiEngineOCR ends by returning.
C10_EveryCellAttempted ==
  /\ gridPc \in {"idle", "setParameters", "recognize", "returned"}
  /\ gridPc \in {"setParameters", "recognize"} =>
       Len(cellLog) = variantIdx * numConfigs + configIdx
  /\ gridPc = "returned" => Len(cellLog) = numVariants * numConfigs

\* A 2 x 2 grid whose first attempts throw and whose last one completes.
C10_Witness ==
  /\ gridPc = "returned"
  /\ numVariants * numConfigs >= 4
  /\ cellLog[1] = "recognizeThrew"
  /\ cellLog[2] = "setParametersThrew"
  /\ cellLog[numVariants * numConfigs] = "completed"

\* C11: for a fixed text, calculateQualityScore never decreases when the
\* engine confidence grows: the score of every confidence c2 >= c1 in
\* 0..100 is at least the score of c1.
C11_MonotoneInConfidence ==
  (fnCall.fn = "calculateQualityScore" /\ fnOut # <<>>) =>
    \A c2 \in EngineConfidences :
      c2 >= fnCall.arg.confidence =>
        calculateQualityScore(fnCall.arg.text, c2) >= fnOut[1]

\* A noisy text scored below its engine confidence, with room above it.
C11_Witness ==
  /\ fnCall.fn = "calculateQualityScore"
  /\ fnOut # <<>>
  /\ fnCall.arg.confidence = 40
  /\ 10 * fnCall.arg.text.special > fnCall.arg.text.len
  /\ fnOut[1] > 0
  /\ fnOut[1] < 40

C12_ParseAmountExamples ==
  (fnCall.fn \in ParseAmountImpls /\ fnOut # <<>>) =>
    /\ fnCall.arg = EuropeanThousands => NumEq(fnOut[1], Dec(123456, 2))
    /\ fnCall.arg = DollarAmount => NumEq(fnOut[1], Dec(6400, 2))
    /\ fnCall.arg = EuropeanDecimal => NumEq(fnOut[1], Dec(6400, 2))

\* C13 (as claimed): every normalizeDate maps "25/12/2024" and "2024-12-25"
\* to "12/25/2024".
C13_NormalizeDateExamples ==
  (fnCall.fn \in NormalizeDateImpls /\ fnOut # <<>>) =>
    (fnCall.arg \in {<<"2", "5", "/", "1", "2", "/", "2", "0", "2", "4">>,
                     <<"2", "0", "2", "4", "-", "1", "2", "-", "2", "5">>} =>
       fnOut[1] = <<"1", "2", "/", "2", "5", "/", "2", "0", "2", "4">>)

\* The raw text holds the line "TOTAL: $42.50" and no digit anywhere else.
OnlyTotalLineHasAmount ==
  LET lines == Split(parseInput.rawText, {"\n"})
  IN  \E k \in 1 .. Len(lines) :
        /\ lines[k] = TotalLine
        /\ \A j \in 1 .. Len(lines) :
             j # k => \A i \in 1 .. Len(lines[j]) : lines[j][i] \notin Digits

\* C14 (as claimed): for a raw text that contains "TOTAL: $42.50" and no
\* other amount, the parser returns total = 42.50 and currency = USD, with
\* subtotal and tax unset.
C14_OnlyTotalAssigned ==
  (parsePc = "done" /\ OnlyTotalLineHasAmount) =>
    invoice = [total |-> 4250, subtotal |-> 0, tax |-> 0, currency |-> "USD"]

\* C15 (as claimed): the fuzzy strategy treats the line "T0TAL 55.00" as a
\* match of the total field: its similarity to some total variant is at
\* least 0.7, and at the end of the strategy total is 55.00.
C15_CorruptedTotalFuzzyMatched ==
  (parseInput.rawText = CorruptedTotalLine /\ parsePc = "context") =>
    /\ FuzzyFieldMatches(toLowerCase(CorruptedTotalLine), fuzzyPatterns[1].variations)
    /\ invoice.total = 5500

\* C19 (as claimed): once total, subtotal or tax has been set, no later
\* matching line and no later strategy overwrites it.
C19_SetFieldsNeverOverwritten ==
  [][/\ invoice.total # 0 => invoice'.total = invoice.total
     /\ invoice.subtotal # 0 => invoice'.subtotal = invoice.subtotal
     /\ invoice.tax # 0 => invoice'.tax = invoice.tax]_vars

\* C17: when the initialisation of the engine fails, processDocument
\* returns success = false with the initialisation error, attemptsUsed = 0
\* and no recognition task started; the service stays uninitialised, and a
\* call made on an uninitialised service starts with the initialisation.
C17_InitFailureEndsCall ==
  [][/\ (pc = "initializing" /\ ~isInitialized') =>
          /\ pc' = "done"
          /\ ~result'.success
          /\ result'.error.message = "Initialization failed"
          /\ result'.attemptsUsed = 0
          /\ started' = 0
          /\ tasks' = NoTasks
          /\ outcomes' = <<>>
     /\ (pc = "initializing" /\ result'.error.message = "Initialization failed") =>
          ~isInitialized'
     /\ (calls' = calls + 1 /\ ~isInitialized) =>
          (pc' = "initializing" /\ initInvoked')]_vars

\* The second call initialises again after the first one failed to.
C17_Witness ==
  /\ calls = 2
  /\ pc = "initializing"
  /\ ~isInitialized
  /\ initInvoked

\* C18: an attempt whose timer fires first ends as a failed attempt of the
\* retry loop (the last one ends the call with a failure, any other one is
\* followed by the backoff), and when its recognition task finishes later
\* nothing of the call changes: no record is extracted, the result and the
\* statistics of the controller stay as they are.
C18_TimedOutAttemptDiscarded ==
  [][/\ (Len(outcomes') = Len(outcomes) + 1 /\ Last(outcomes') = "timeout") =>
          /\ attempt' = attempt
          /\ attemptsUsed' = attempt + 1
          /\ UNCHANGED <<lastExtracted, bestExtracted, processingStats>>
          /\ IF attempt = maxRetries
             THEN /\ pc' = "done"
                  /\ ~result'.success
                  /\ result'.data = NoData
                  /\ result'.attemptsUsed = attempt + 1
             ELSE pc' = "backoff" /\ UNCHANGED result
     /\ (\E k \in Attempts :
           /\ ~Awaited(k)
           /\ Running(k)
           /\ tasks'[k] = "settled") =>
          UNCHANGED <<pc, attempt, attemptsUsed, result, outcomes, lastError,
                      lastExtracted, bestExtracted, processingStats>>]_vars

\* The only attempt of the first call timed out, and its recognition
\* task completed afterwards: the call has failed with an empty record.
C18_Witness ==
  /\ calls = 1
  /\ pc = "done"
  /\ outcomes = <<"timeout">>
  /\ tasks[0] = "settled"
  /\ engineStats.totalProcessed = 1
  /\ ~result.success
  /\ result.data = NoData

\* C20 (as claimed): the processing statistics, of the controller and of
\* the engine, change only in the step that completes a document.
C20_StatsChangeOnlyOnCompletion ==
  [][(processingStats' # processingStats \/ engineStats' # engineStats) =>
       (pc # "done" /\ pc' = "done")]_vars

\* An attempt ended by an exception caught in the retry loop.
Raised(outcome) == outcome \in {"insufficient", "engineError", "timeout"}

\* C21: when attempt k raises and k < maxRetries the controller waits
\* min(1000 * 2^k, 5000) ms and only then starts attempt k + 1; the waits
\* never decrease with k and never exceed 5000 ms; when the final attempt
\* raises there is no wait and the call returns a failure result.
C21_BackoffBeforeRetry ==
  [][/\ \A k \in 0 .. MaxBackoffAttempt :
          /\ backoffDelay(k) = IF 1000 * 2^k < 5000 THEN 1000 * 2^k ELSE 5000
          /\ backoffDelay(k) <= backoffDelay(k + 1)
          /\ backoffDelay(k) <= 5000
     /\ (Len(outcomes') = Len(outcomes) + 1 /\ Raised(Last(outcomes'))) =>
          IF attempt < maxRetries
          THEN /\ pc' = "backoff"
               /\ delayMs' = backoffDelay(attempt)
               /\ UNCHANGED <<attempt, started, result>>
          ELSE /\ pc' = "done"
               /\ ~result'.success
               /\ result'.error.message = "Processing failed"
               /\ UNCHANGED <<attempt, started, delayMs>>
     /\ (pc = "backoff" /\ pc' # "backoff") =>
          /\ pc' = "awaiting"
          /\ attempt' = attempt + 1
          /\ started' = started + 1
     /\ (calls' = calls /\ started > 0 /\ started' = started + 1) =>
          \/ pc = "backoff"
          \/ Len(outcomes') = Len(outcomes) + 1 /\ ~Raised(Last(outcomes'))]_vars

\* The second attempt of a call raised after the first one did: the
\* controller is waiting 2000 ms.
C21_Witness ==
  /\ pc = "backoff"
  /\ attempt = 1
  /\ delayMs = 2000
  /\ outcomes = <<"timeout", "engineError">>

\* The score before the noise penalty and the clamp: engine confidence, 15
\* for a monetary token, 3 per receipt keyword, 5 for a length in the band.
ScoreBeforePenalty(text, confidence) ==
  confidence + (IF text.hasMoney THEN 15 ELSE 0) + 3 * text.foundWords
  + (IF 50 < text.len /\ text.len < 5000 THEN 5 ELSE 0)

\* p is 20 * special / len rounded to the nearest integer, halves up.
IsRoundedPenalty(p, text) ==
  /\ 2 * 20 * text.special - text.len < 2 * text.len * p
  /\ 2 * text.len * p <= 2 * 20 * text.special + text.len

\* score is raw clamped to 0..100.
IsClamped(score, raw) ==
  IF raw < 0 THEN score = 0 ELSE IF raw > 100 THEN score = 100 ELSE score = raw

\* C22 (as claimed): calculateQualityScore returns the clamped sum of the
\* engine confidence and the bonuses minus round(20 * specialCharRatio),
\* the penalty being subtracted for every value of the ratio.
C22_PenaltyForEveryRatio ==
  (fnCall.fn = "calculateQualityScore" /\ fnOut # <<>> /\ fnCall.arg.text.len > 0) =>
    \E p \in 0 .. 20 :
      /\ IsRoundedPenalty(p, fnCall.arg.text)
      /\ IsClamped(fnOut[1],
                   ScoreBeforePenalty(fnCall.arg.text, fnCall.arg.confidence) - p)

\* C22 (amended): calculateQualityScore returns the clamped sum of the
\* engine confidence and the bonuses, minus round(20 * specialCharRatio)
\* when specialCharRatio > 0.1 and minus nothing otherwise (an empty text,
\* whose ratio is not a number, included).
C22_PenaltyAboveTenth ==
  (fnCall.fn = "calculateQualityScore" /\ fnOut # <<>>) =>
    LET text == fnCall.arg.text
        raw == ScoreBeforePenalty(text, fnCall.arg.confidence)
    IN  IF text.len > 0 /\ 10 * text.special > text.len
        THEN \E p \in 0 .. 20 : IsRoundedPenalty(p, text) /\ IsClamped(fnOut[1], raw - p)
        ELSE IsClamped(fnOut[1], raw)

\* A 51-character text with 6 characters outside the allow-list, a monetary
\* token and three keywords, recognised at confidence 40: 40 + 15 + 9 + 5 - 2.
C22_Witness ==
  /\ fnCall.fn = "calculateQualityScore"
  /\ fnOut = <<67>>
  /\ fnCall.arg.confidence = 40
  /\ fnCall.arg.text = [len |-> 51, hasMoney |-> TRUE, foundWords |-> 3, special |-> 6]

\* The amounts of the list that strategy 4 has stored in subtotal or tax.
AssignedElsewhere == Range(amountOf.subtotal) \cup Range(amountOf.tax)

\* C23 (as claimed): when finalizeAmountAssignment assigns the total, it
\* takes the highest-confidence amount among those that were not assigned
\* to subtotal or tax: an amount stored in one of them is never the total.
C23_FallbackTotalUnassigned ==
  [][(parsePc = "context" /\ parsePc' = "done" /\ amountOf'.total # amountOf.total) =>
       LET unassigned == SelectSeq(foundAmounts, LAMBDA a : a \notin AssignedElsewhere)
       IN  /\ amountOf'.total[1] \notin AssignedElsewhere
           /\ amountOf'.total[1] = bestAmount(unassigned)
           /\ invoice'.total = bestAmount(unassigned).value]_vars

\* The line without the amount-shaped token it ends with.
RECURSIVE BeforeTrailingAmount(_)
BeforeTrailingAmount(line) ==
  IF line # <<>> /\ Last(line) \in Digits \cup {".", "$"} \cup WhiteSpace
  THEN BeforeTrailingAmount(Take(line, Len(line) - 1))
  ELSE line

\* Every item has a description and a price above 0 and below 200.
ItemsWellFormed ==
  (fnCall.fn = "extractLineItems" /\ fnOut # <<>>) =>
    \A k \in 1 .. Len(fnOut[1]) :
      /\ fnOut[1][k].description # <<>>
      /\ NumGt(fnOut[1][k].amount, Dec(0, 0))
      /\ NumGt(Dec(200, 0), fnOut[1][k].amount)

\* C24 (as claimed): every item that extractLineItems emits has a non-empty
\* description and an amount with 0 < amount < 200, and none is made of a
\* line whose text before the trailing amount contains total, subtotal,
\* tax or amount.
C24_NoItemFromKeywordLine ==
  /\ ItemsWellFormed
  /\ (fnCall.fn = "extractLineItems" /\ fnOut # <<>>) =>
       \A k \in 1 .. Len(fnOut[1]) :
         ~Test(ItemKeywords,
               BeforeTrailingAmount(cleanedLines(fnCall.arg)[fnOut[1][k].line]))

\* C25: a processDocument call that is past the initialisation returns:
\* every attempt ends (by completion, an error or its timeout) whether or
\* not the engine answers, every backoff ends, and no call makes more than
\* maxRetries + 1 attempts.
C25_CallReturns ==
  /\ [](started <= maxRetries + 1)
  /\ \A k \in Attempts :
       (pc = "awaiting" /\ attempt = k) ~> (pc # "awaiting" \/ attempt # k)
  /\ (pc \in {"awaiting", "backoff"}) ~> (pc = "done")

\* A call with maxRetries = 2 has returned its failure although none of its
\* three recognition tasks ever settled.
C25_Witness ==
  /\ pc = "done"
  /\ maxRetries = 2
  /\ started = 3
  /\ outcomes = <<"timeout", "timeout", "timeout">>
  /\ \A k \in 0 .. 2 : Running(k)
  /\ ~result.success
  /\ result.attemptsUsed = 3

\* C26 (as claimed): when some attempt of the grid completed,
\* performMultiEngineOCR returns the result of a completed attempt (its text
\* and its method label) and not the initial placeholder, whatever the
\* scores of the completed attempts.
C26_CompletedAttemptReturned ==
  (gridPc = "returned" /\ results # <<>>) =>
    /\ bestResult # Placeholder
    /\ \E i \in 1 .. Len(results) :
         bestResult.text = results[i].text /\ bestResult.method = results[i].method

\* C27 (as claimed): whatever the interleaving of concurrent initialize()
\* and processDocument() calls, at most one worker is created between two
\* terminate() calls (as long as no initialisation failed).
C27_AtMostOneWorker ==
  (\A c \in Callers : callerPc[c] # "failed") => workersCreated <= 1

\* C28 (as claimed): the confidence stored on the extracted record is the
\* quality score of the recognition result that the orchestrator retained
\* for the document.
C28_ConfidenceIsRetainedScore ==
  lastExtracted # NoData => lastExtracted.confidence = retained.confidence

\* C29 (as claimed): processImageOptimized leaves the page segmentation
\* mode at 6 on every exit path, so that the primary recognition of every
\* document runs under mode 6.
C29_ModeRestored ==
  /\ optPc \in {"returned", "threw"} => psm = 6
  /\ optPc = "primary" => psm = 6

\* C30 (as claimed): during the recognition of an attempt whose
\* configuration declares no character whitelist, the digits-only whitelist
\* of single_word is not in effect.
C30_WhitelistNotCarried ==
  (prmPc = "recognize"
     /\ "tessedit_char_whitelist" \notin DOMAIN prmConfig.parameters) =>
    engineParams.tessedit_char_whitelist # DigitsWhitelist

====
